---- MODULE Spec2Model ----
(***************************************************************************)
(* A model of the student rent advisor: the numeric input normalizer       *)
(* (audio_repeat.clean_float), the two CSV loaders, the regression          *)
(* predictor and the recommendation filter (affordability_model), the      *)
(* three orchestrators (main.run_cli_mode, the voice interaction, the      *)
(* dashboard's results step), the playback queue (audio_repeat), the HTTP  *)
(* endpoint (fake_api, rag) and a dashboard session (dashboard).  Each     *)
(* subsystem has its own specification over the shared variables.          *)
(*                                                                         *)
(* Text is modelled as a sequence of lexemes: a lexeme is one character    *)
(* ("$", ",", " ", "-", a digit) or one whole word ("None", "nil", "two",  *)
(* "zz").  Adjacent lexemes are adjacent in the text, so <<"7","7">> is    *)
(* the text "77" and <<"two","zz">> is the single word "twozz".            *)
(*                                                                         *)
(* An optional value is a sequence of length 0 (None) or 1 (the value).    *)
(***************************************************************************)
EXTENDS Integers, Sequences, FiniteSets, TLC

VARIABLES
    \* ---- clean_float (audio_repeat.py) ----
    env_key,        \* GEMINI_API_KEY is set in the environment
    env_genai,      \* google.generativeai could be imported (genai is not None)
    gemini_cache,   \* lru_cache of _get_gemini_model: "unset", "none", "model"
    cf_pc,          \* where the current clean_float call stands
    raw,            \* the argument of the current call
    val,            \* the local val after line 214
    cf_result,      \* the returned number (optional)
    warning,        \* the text named by the printed warning (optional)
    attempts,       \* the layers the current call has attempted, in order
    contacted,      \* the current call sent a request to the remote service
    \* ---- the loaders (affordability_model.py) ----
    histFile,       \* historical_students.csv as the file system holds it
    subFile,        \* sublets.csv as the file system holds it
    next_id,        \* the identity the next DataFrame object gets
    hist_log,       \* one entry per load_historical_data call, in call order
    df_train,       \* the frame the last load_historical_data returned (optional)
    sub_outcome,    \* how the last load_sublets ended: "none", "returned", "raised"
    sub_warned,     \* the last load_sublets printed its warning
    sublets_df,     \* the frame the last load_sublets returned (optional)
    \* ---- train_model and predict_safe_rent (affordability_model.py) ----
    model,          \* the model object the last train_model returned (optional)
    fit_raised,     \* the last train_model raised
    p_pc,           \* per caller: where its predict_safe_rent call stands
    p_model,        \* per caller: the model object it passed
    p_input,        \* per caller: the user_input dict it passed
    p_given,        \* per caller: model and user_input as they were at the call
    p_features,     \* per caller: the local features[0], lines 54-62
    p_rent,         \* per caller: the local rent, line 63
    p_result,       \* per caller: the returned value, in cents (optional)
    \* ---- recommend_apartments (affordability_model.py) ----
    rec_in,         \* the frame passed as sublets_df
    rec_given,      \* that frame as it was at the call
    rec_safe,       \* the safe_rent passed, in cents
    recommendations, \* the returned frame (optional)
    \* ---- one run of an orchestrator (main.py, audio_repeat.py, dashboard.py) ----
    o_kind,         \* which orchestrator runs: "cli", "voice", "dash"
    o_pc,           \* where the run stands
    o_input,        \* the user_input dict it built (optional)
    o_train,        \* the frame load_historical_data gave it (optional)
    o_model,        \* the model it trained (optional)
    o_safe,         \* the safe_rent it computed, in cents (optional)
    o_listings,     \* the frame load_sublets gave it (optional)
    o_recs,         \* the frame recommend_apartments gave it (optional)
    o_warnings,     \* the warnings it has shown
    o_message,      \* what it reported about the recommendations
    o_shown,        \* the listings it showed, in the order shown
    o_error,        \* the exception that ended it, "none" if none
    warehouse,      \* the state of the Snowflake warehouse
    \* ---- the playback queue (audio_repeat.py) ----
    a_queue,        \* _AUDIO_QUEUE: the paths waiting, oldest first
    a_event,        \* _AUDIO_QUEUE_EVENT is set
    a_thread,       \* _AUDIO_THREAD: 0 for None, else the worker it names
    a_next,         \* the number the next temporary file gets
    s_pc,           \* per session thread: where its speak_text call stands
    s_path,         \* per session thread: the file it is about to enqueue
    s_new,          \* per session thread: the worker thread it created
    w_pc,           \* per worker thread: where _audio_worker stands
    w_path,         \* per worker thread: the local path, 0 if none
    enqueued,       \* history: the paths in the order they were appended
    played,         \* history: the paths in the order their playback began
    \* ---- the HTTP endpoint (fake_api.py, rag.py) ----
    h_file,         \* sublets.csv as the endpoint's process finds it
    h_budget,       \* the budget of the last request
    h_status,       \* how the last request ended: "none", "200", "500"
    h_body,         \* the JSON object of the last response (optional)
    \* ---- one dashboard session (dashboard.py, st.session_state) ----
    q_index,        \* the number of the question shown, 0 before the tone
    answers,        \* per question index 0..6: the answer, None if the key is absent
    finished,       \* the questions are over
    tone_confirmed, \* a tone was chosen
    demo_mode,      \* the auto-fill checkbox
    spoken_value,   \* per question index: the number heard, None if no key
    d_result,       \* the results step: "none", "shown", "KeyError"
    \* ---- the repeat-mode tests (test_audio_repeat.py) ----
    t_repeat,       \* the repeat_mode argument of the test case
    t_script,       \* the answers the test case has ready for input()
    t_pc,           \* "collect", "running", "ImportError"
    t_reads,        \* input() calls so far
    t_prints,       \* "Incorrect, let's try again." printed so far
    t_result,       \* what the call returned, None if it did not return
    \* ---- the dashboard's spoken answer (dashboard.py 728-750) ----
    k_key,          \* OPENROUTER_API_KEY is set and requests could be imported
    k_pc,           \* "idle", "clarify", "float", "clean", "recorded", "raised"
    k_raw,          \* the transcript
    k_sent,         \* the transcripts posted to OpenRouter
    k_reply,        \* what openrouter_clarify_number returned, None for None
    k_numeric,      \* numeric, None while it is None
    k_value,        \* spoken_value[q_idx], None while the key is absent
    k_error,        \* speak_error is set
    \* ---- the cached model (main.py 31-77, dashboard.py 162-173) ----
    m_version,      \* the version of the historical data on disk
    m_subs_ok,      \* load_sublets would return (FALSE: it would raise)
    m_model,        \* main._model, None for None
    m_sublets,      \* main._sublets_df, None for None
    st_hist,        \* the cached result of dashboard._load_historical_data
    st_model,       \* the cached result of dashboard._load_model
    st_sublets,     \* the cached result of dashboard._load_sublets
    m_fits,         \* calls of train_model so far
    m_gets,         \* calls of the getters so far
    m_ret,          \* per host: the last two models returned, with the data version then
    \* ---- sign-in and warehouse logging (dashboard.py 505-543, 788-817) ----
    auth0_user,     \* the user signed in, 0 while the key is absent
    u_login,        \* sign-ins so far in this session
    u_owners,       \* the users who were signed in when the answers were given
    u_finished,     \* session_state.finished
    login_logged,   \* session_state.login_logged
    recommendation_logged, \* session_state.recommendation_logged
    budget_logged,  \* session_state.budget_logged
    u_runs,         \* script runs so far
    u_rows          \* the rows the warehouse holds

normVars == <<env_key, env_genai, gemini_cache, cf_pc, raw, val, cf_result,
              warning, attempts, contacted>>

loadVars == <<histFile, subFile, next_id, hist_log, df_train, sub_outcome,
              sub_warned, sublets_df>>

predVars == <<model, fit_raised, p_pc, p_model, p_input, p_given, p_features,
              p_rent, p_result>>

recVars == <<rec_in, rec_given, rec_safe, recommendations>>

pipeVars == <<o_kind, o_pc, o_input, o_train, o_model, o_safe, o_listings, o_recs,
              o_warnings, o_message, o_shown, o_error, warehouse>>

audioVars == <<a_queue, a_event, a_thread, a_next, s_pc, s_path, s_new, w_pc,
               w_path, enqueued, played>>

\* The variables of the subsystems added after the first four.
httpVars == <<h_file, h_budget, h_status, h_body>>

dashVars == <<q_index, answers, finished, tone_confirmed, demo_mode,
              spoken_value, d_result>>

testVars == <<t_repeat, t_script, t_pc, t_reads, t_prints, t_result>>

spokenVars == <<k_key, k_pc, k_raw, k_sent, k_reply, k_numeric, k_value, k_error>>

memoVars == <<m_version, m_subs_ok, m_model, m_sublets, st_hist, st_model, st_sublets, m_fits, m_gets, m_ret>>

logVars == <<auth0_user, u_login, u_owners, u_finished, login_logged, recommendation_logged, budget_logged, u_runs, u_rows>>

\* The variables of the subsystems modelled last.
moreVars == <<testVars, spokenVars, memoVars, logVars>>

extVars == <<pipeVars, audioVars, httpVars, dashVars, moreVars>>

vars == <<normVars, loadVars, predVars, recVars, extVars>>

\* Everything but the orchestrator's variables.
notPipe == <<normVars, loadVars, predVars, recVars, audioVars, httpVars, dashVars,
             moreVars>>

\* Everything but the playback queue's variables.
notAudio == <<normVars, loadVars, predVars, recVars, pipeVars, httpVars, dashVars,
             moreVars>>

\* Everything but the endpoint's variables.
notHttp == <<normVars, loadVars, predVars, recVars, pipeVars, audioVars, dashVars,
             moreVars>>

\* Everything but the dashboard session's variables.
notDash == <<normVars, loadVars, predVars, recVars, pipeVars, audioVars, httpVars,
             moreVars>>

\* dashboard.py lines 152-160: the questions, by what they ask for.
questions == <<"tuition", "bank_balance", "part_time_income",
               "internship_income", "scholarships", "loans", "months">>

\* The keys of st.session_state.answers.
QuestionIndexes == 0..(Len(questions) - 1)

\* The threads of the dashboard sessions that request narrations.
Sessions == {1, 2}

\* The worker threads _ensure_audio_worker may come to start.
Workers == {1, 2}

None == <<>>
Some(v) == <<v>>

\* The callers of predict_safe_rent that may run at the same time.
Callers == {1, 2}

\* The predictor at rest, for the specifications that do not exercise it.
IdlePred ==
    /\ model = None
    /\ fit_raised = FALSE
    /\ p_pc = [t \in Callers |-> "idle"]
    /\ p_model = [t \in Callers |-> None]
    /\ p_input = [t \in Callers |-> <<>>]
    /\ p_given = [t \in Callers |-> None]
    /\ p_features = [t \in Callers |-> <<>>]
    /\ p_rent = [t \in Callers |-> 0]
    /\ p_result = [t \in Callers |-> None]

\* The filter at rest, for the specifications that do not exercise it.
IdleRec ==
    /\ rec_in = <<>>
    /\ rec_given = <<>>
    /\ rec_safe = 0
    /\ recommendations = None

\* No orchestrator running, for the specifications that do not run one.
IdlePipe ==
    /\ o_kind = "none"
    /\ o_pc = "idle"
    /\ o_input = None
    /\ o_train = None
    /\ o_model = None
    /\ o_safe = None
    /\ o_listings = None
    /\ o_recs = None
    /\ o_warnings = {}
    /\ o_message = "none"
    /\ o_shown = <<>>
    /\ o_error = "none"
    /\ warehouse = "up"

\* The playback queue as the module is imported, lines 102-105.
IdleAudio ==
    /\ a_queue = <<>>
    /\ a_event = FALSE
    /\ a_thread = 0
    /\ a_next = 1
    /\ s_pc = [s \in Sessions |-> "idle"]
    /\ s_path = [s \in Sessions |-> 0]
    /\ s_new = [s \in Sessions |-> 0]
    /\ w_pc = [w \in Workers |-> "unborn"]
    /\ w_path = [w \in Workers |-> 0]
    /\ enqueued = <<>>
    /\ played = <<>>

\* The endpoint before any request, without a listings file.
IdleHttp ==
    /\ h_file = [state |-> "absent", rows |-> <<>>]
    /\ h_budget = 0
    /\ h_status = "none"
    /\ h_body = None

\* dashboard.py lines 25-46 and 137-142: a new session.
IdleDash ==
    /\ q_index = 0
    /\ answers = [i \in QuestionIndexes |-> None]
    /\ finished = FALSE
    /\ tone_confirmed = FALSE
    /\ demo_mode = TRUE
    /\ spoken_value = [i \in QuestionIndexes |-> None]
    /\ d_result = "none"

\* The later subsystems at rest.
\* The test module not collected, for the specifications that do not run it.
IdleTests ==
    /\ t_repeat = FALSE
    /\ t_script = <<>>
    /\ t_pc = "idle"
    /\ t_reads = 0
    /\ t_prints = 0
    /\ t_result = None

\* No spoken answer under way, for the specifications that take none.
IdleSpoken ==
    /\ k_key = FALSE
    /\ k_pc = "off"
    /\ k_raw = <<>>
    /\ k_sent = {}
    /\ k_reply = None
    /\ k_numeric = None
    /\ k_value = None
    /\ k_error = FALSE

\* The processes that keep a fitted model.
Hosts == {"main", "dashboard"}

\* No model fitted and none asked for, for the specifications that cache none.
IdleMemo ==
    /\ m_version = 0
    /\ m_subs_ok = TRUE
    /\ m_model = None
    /\ m_sublets = None
    /\ st_hist = None
    /\ st_model = None
    /\ st_sublets = None
    /\ m_fits = 0
    /\ m_gets = 0
    /\ m_ret = [h \in Hosts |-> <<>>]

\* Nobody signed in and nothing logged, for the specifications without
\* sign-in.
IdleLog ==
    /\ auth0_user = 0
    /\ u_login = 0
    /\ u_owners = {}
    /\ u_finished = FALSE
    /\ login_logged = FALSE
    /\ recommendation_logged = FALSE
    /\ budget_logged = FALSE
    /\ u_runs = 0
    /\ u_rows = {}

IdleMore == IdleTests /\ IdleSpoken /\ IdleMemo /\ IdleLog

IdleExt == IdlePipe /\ IdleAudio /\ IdleHttp /\ IdleDash /\ IdleMore

\* The normalizer at rest, for the specifications that do not exercise it.
IdleNorm ==
    /\ env_key = FALSE
    /\ env_genai = FALSE
    /\ gemini_cache = "unset"
    /\ cf_pc = "idle"
    /\ raw = <<>>
    /\ val = <<>>
    /\ cf_result = None
    /\ warning = None
    /\ attempts = <<>>
    /\ contacted = FALSE

(***************************************************************************)
(* Text                                                                    *)
(***************************************************************************)
Alphabet == {"$", ",", " ", "-", "7", "None", "nil", "two", "zz"}

\* The longest argument text tried, in lexemes.
MaxLen == 3

Texts == UNION {[1..n -> Alphabet] : n \in 0..MaxLen}

DigitChars == <<"0", "1", "2", "3", "4", "5", "6", "7", "8", "9">>

Digits == {DigitChars[i] : i \in 1..10}

DigitVal(c) == (CHOOSE i \in 1..10 : DigitChars[i] = c) - 1

\* str.lower(), lexeme by lexeme.
LowerLex(c) == IF c = "None" THEN "none" ELSE c

Lower(s) == [i \in 1..Len(s) |-> LowerLex(s[i])]

RECURSIVE LStrip(_)
LStrip(s) == IF s # <<>> /\ Head(s) = " " THEN LStrip(Tail(s)) ELSE s

RECURSIVE RStrip(_)
RStrip(s) ==
    IF s # <<>> /\ s[Len(s)] = " " THEN RStrip(SubSeq(s, 1, Len(s) - 1)) ELSE s

\* str.strip(): surrounding whitespace removed.
Strip(s) == RStrip(LStrip(s))

\* str.replace(c, ""): every occurrence of c removed.
Remove(s, c) == SelectSeq(s, LAMBDA x : x # c)

\* str.replace(c, " ")
ReplaceBySpace(s, c) == [i \in 1..Len(s) |-> IF s[i] = c THEN " " ELSE s[i]]

\* Line 214: str(val).lower().strip().replace("$", "").replace(",", "")
Normalize(s) == Remove(Remove(Strip(Lower(s)), "$"), ",")

\* Line 216: the tokens that mean zero.
NoneTokens == {<<"none">>, <<"nothing">>, <<"nil">>}

IsNoneLike(v) == v = <<>> \/ v \in NoneTokens

RECURSIVE DigitsValue(_)
DigitsValue(s) ==
    IF s = <<>> THEN 0
    ELSE 10 * DigitsValue(SubSeq(s, 1, Len(s) - 1)) + DigitVal(s[Len(s)])

AllDigits(s) == s # <<>> /\ \A i \in 1..Len(s) : s[i] \in Digits

\* float(text): surrounding whitespace is ignored, an optional sign, then
\* digits.  None stands for ValueError.
FloatParse(s) ==
    LET t == Strip(s) IN
    IF AllDigits(t) THEN Some(DigitsValue(t))
    ELSE IF t # <<>> /\ Head(t) = "-" /\ AllDigits(Tail(t))
         THEN Some(0 - DigitsValue(Tail(t)))
    ELSE None

\* str.split(): the maximal runs of non-blank lexemes.
RECURSIVE SplitWords(_, _)
SplitWords(s, cur) ==
    IF s = <<>> THEN (IF cur = <<>> THEN <<>> ELSE <<cur>>)
    ELSE IF Head(s) = " "
         THEN (IF cur = <<>> THEN <<>> ELSE <<cur>>) \o SplitWords(Tail(s), <<>>)
    ELSE SplitWords(Tail(s), Append(cur, Head(s)))

\* The number words of word2number that the alphabet can spell.
NumberWords == {<<"two">>}

NumberWordVal(w) == 2

\* word2number's number_formation on the values of the number words.
NumberFormation(n) ==
    IF Len(n) = 4 THEN n[1] * n[2] + n[3] + n[4]
    ELSE IF Len(n) = 3 THEN n[1] * n[2] + n[3]
    ELSE IF Len(n) = 2
         THEN (IF 100 \in {n[1], n[2]} THEN n[1] * n[2] ELSE n[1] + n[2])
    ELSE n[1]

\* w2n.word_to_num(text), line 223: "-" becomes a blank, a digit string is
\* its own value, else the number words are kept and combined.  None stands
\* for ValueError.
WordToNum(s) ==
    LET t == ReplaceBySpace(s, "-")
        words == SplitWords(t, <<>>)
        clean == SelectSeq(words, LAMBDA w : w \in NumberWords)
        nums == [i \in 1..Len(clean) |-> NumberWordVal(clean[i])]
    IN  IF AllDigits(t) THEN Some(DigitsValue(t))
        ELSE IF clean = <<>> THEN None
        ELSE Some(NumberFormation(nums))

(***************************************************************************)
(* The loaders                                                             *)
(*                                                                         *)
(* A CSV file is absent, present but not readable as CSV (pd.read_csv      *)
(* raises), readable without the key column, or readable with it.  A cell  *)
(* of the key column is the text the file holds; after pd.to_numeric it is *)
(* an optional number, None standing for NaN.                              *)
(***************************************************************************)
\* The most rows a file holds.
MaxRows == 2

\* The most load_historical_data calls followed.
MaxCalls == 2

\* Lines 22-27: the built-in training rows, features in column order.
FallbackData ==
    << [features |-> <<8000, 1500, 1000, 0, 2000, 1500, 8>>,
        safe_rent |-> <<"8", "0", "0">>],
       [features |-> <<9000, 2000, 0, 0, 1000, 3000, 8>>,
        safe_rent |-> <<"7", "5", "0">>],
       [features |-> <<7000, 500, 800, 500, 1000, 1000, 8>>,
        safe_rent |-> <<"6", "0", "0">>] >>

\* Rows a historical file may hold: labels that are numbers, a word, empty.
SampleTrainRows ==
    { [features |-> <<8000, 1500, 1000, 0, 2000, 1500, 8>>,
       safe_rent |-> <<"8", "0", "0">>],
      [features |-> <<9000, 2000, 0, 0, 1000, 3000, 8>>,
       safe_rent |-> <<"N/A">>],
      [features |-> <<7000, 500, 800, 500, 1000, 1000, 8>>,
       safe_rent |-> <<>>],
      [features |-> <<9000, 2000, 0, 0, 1000, 3000, 8>>,
       safe_rent |-> <<"7", "5", "0">>] }

\* Rows a listings file may hold.
SampleListingRows ==
    { [address |-> "A", monthly_rent |-> <<"0">>],
      [address |-> "B", monthly_rent |-> <<"2", "0", "0">>],
      [address |-> "C", monthly_rent |-> <<"9", "0", "0">>],
      [address |-> "D", monthly_rent |-> <<"zz">>] }

SeqsUpTo(S, n) == UNION {[1..k -> S] : k \in 0..n}

FilesOf(rows) ==
    {[state |-> st, rows |-> <<>>] : st \in {"absent", "unreadable", "nokey"}}
    \cup {[state |-> "ok", rows |-> r] : r \in SeqsUpTo(rows, MaxRows)}

\* os.path.exists(csv_file), lines 18 and 43.
Exists(file) == file.state # "absent"

\* pd.to_numeric(text, errors='coerce'), lines 29 and 45: the number, or NaN.
ToNumeric(text) == FloatParse(text)

\* df[col] = pd.to_numeric(df[col], errors='coerce')
CoerceColumn(rows, col) ==
    [i \in 1..Len(rows) |-> [rows[i] EXCEPT ![col] = ToNumeric(@)]]

\* dropna with every row kept: the rows as they are.
DropNaKeepsAll(rows, col) == rows

\* df.dropna(subset=[col]), lines 30 and 46.
DropNa(rows, col) == SelectSeq(rows, LAMBDA r : r[col] # None)

\* Lines 13-31.  raised: an exception left the function (pd.read_csv on a
\* file it cannot parse or open, KeyError on the missing column).
load_historical_data(file) ==
    IF ~Exists(file)
    THEN [raised |-> FALSE,
          rows |-> DropNa(CoerceColumn(FallbackData, "safe_rent"), "safe_rent")]
    ELSE IF file.state \in {"unreadable", "nokey"}
    THEN [raised |-> TRUE, rows |-> <<>>]
    ELSE [raised |-> FALSE,
          rows |-> DropNa(CoerceColumn(file.rows, "safe_rent"), "safe_rent")]

\* load_sublets reading the file without the os.path.exists test: a
\* missing file raises FileNotFoundError.
load_sublets_unguarded(file) ==
    IF file.state \in {"absent", "unreadable", "nokey"}
    THEN [raised |-> TRUE, warned |-> FALSE, rows |-> <<>>]
    ELSE [raised |-> FALSE, warned |-> FALSE,
          rows |-> DropNa(CoerceColumn(file.rows, "monthly_rent"),
                          "monthly_rent")]

\* Lines 42-50.  warned: the "not found" warning was printed.
load_sublets(file) ==
    IF Exists(file)
    THEN IF file.state \in {"unreadable", "nokey"}
         THEN [raised |-> TRUE, warned |-> FALSE, rows |-> <<>>]
         ELSE [raised |-> FALSE, warned |-> FALSE,
               rows |-> DropNa(CoerceColumn(file.rows, "monthly_rent"),
                               "monthly_rent")]
    ELSE [raised |-> FALSE, warned |-> TRUE, rows |-> <<>>]

\* The loaders at rest, for the specifications that do not exercise them.
IdleLoad ==
    /\ histFile = [state |-> "absent", rows |-> <<>>]
    /\ subFile = [state |-> "absent", rows |-> <<>>]
    /\ next_id = 0
    /\ hist_log = <<>>
    /\ df_train = None
    /\ sub_outcome = "none"
    /\ sub_warned = FALSE
    /\ sublets_df = None

InitLoad ==
    /\ histFile \in FilesOf(SampleTrainRows)
    /\ subFile \in FilesOf(SampleListingRows)
    /\ next_id = 0
    /\ hist_log = <<>>
    /\ df_train = None
    /\ sub_outcome = "none"
    /\ sub_warned = FALSE
    /\ sublets_df = None

\* A call of load_historical_data(): the frame it returns is a new object.
LoadHistorical ==
    /\ Len(hist_log) < MaxCalls
    /\ LET r == load_historical_data(histFile) IN
       IF r.raised
       THEN /\ hist_log' = Append(hist_log, [outcome |-> "raised", id |-> -1,
                                             rows |-> <<>>])
            /\ UNCHANGED <<next_id, df_train>>
       ELSE /\ hist_log' = Append(hist_log, [outcome |-> "returned",
                                             id |-> next_id, rows |-> r.rows])
            /\ next_id' = next_id + 1
            /\ df_train' = Some(r.rows)
    /\ UNCHANGED <<histFile, subFile, sub_outcome, sub_warned, sublets_df>>
    /\ UNCHANGED <<normVars, predVars, recVars, extVars>>

\* A call of load_sublets().
LoadSublets ==
    /\ LET r == load_sublets(subFile) IN
       /\ sub_outcome' = IF r.raised THEN "raised" ELSE "returned"
       /\ sub_warned' = r.warned
       /\ sublets_df' = IF r.raised THEN sublets_df ELSE Some(r.rows)
    /\ UNCHANGED <<histFile, subFile, next_id, hist_log, df_train>>
    /\ UNCHANGED <<normVars, predVars, recVars, extVars>>

NextLoad ==
    \/ LoadHistorical
    \/ LoadSublets

InitSpecLoad == IdleNorm /\ InitLoad /\ IdlePred /\ IdleRec /\ IdleExt

SpecLoad == InitSpecLoad /\ [][NextLoad]_vars

(***************************************************************************)
(* Claims about the loaders, checked under SpecLoad                        *)
(***************************************************************************)
\* The positions of the rows whose key cell is a number.
NumericRows(R, col) == {i \in 1..Len(R) : ToNumeric(R[i][col]) # None}

\* The k-th of them, counted from the top of the file.
KthNumericRow(R, col, k) ==
    CHOOSE i \in NumericRows(R, col) :
        Cardinality({j \in NumericRows(R, col) : j <= i}) = k

\* out is R without the rows whose key cell is no number, the others in
\* the order of R, their key cell as a number.
KeepsExactlyNumeric(out, R, col) ==
    /\ Len(out) = Cardinality(NumericRows(R, col))
    /\ \A k \in 1..Len(out) :
          out[k] = [R[KthNumericRow(R, col, k)] EXCEPT ![col] = ToNumeric(@)]

\* C9: both loaders drop exactly the rows whose key cell fails the numeric
\* coercion and keep every other row in source order, and a bad row never
\* makes the load fail.
C9_DropsExactlyBadRows ==
    /\ histFile.state = "ok" =>
          \A i \in 1..Len(hist_log) :
              /\ hist_log[i].outcome = "returned"
              /\ KeepsExactlyNumeric(hist_log[i].rows, histFile.rows, "safe_rent")
    /\ (subFile.state = "ok" /\ sub_outcome # "none") =>
          /\ sub_outcome = "returned"
          /\ sublets_df # None
          /\ KeepsExactlyNumeric(sublets_df[1], subFile.rows, "monthly_rent")

\* C9's case: each loader has read a file of two rows, one of them with a
\* key cell that is no number, and returned the other.
C9_Witness ==
    /\ histFile.state = "ok" /\ Len(histFile.rows) = 2
    /\ hist_log # <<>> /\ Len(hist_log[1].rows) = 1
    /\ subFile.state = "ok" /\ Len(subFile.rows) = 2
    /\ sub_outcome = "returned" /\ Len(sublets_df[1]) = 1

\* The tuition and the label of each row of a frame.
TuitionAndLabel(rows) ==
    [i \in 1..Len(rows) |-> <<rows[i].features[1], rows[i].safe_rent>>]

\* C10: with the training source absent or unreadable every call returns
\* the three built-in rows (labels 800, 750, 600 for tuition 8000, 9000,
\* 7000), each time as a new collection.
C10_FallbackWhenAbsentOrUnreadable ==
    histFile.state \in {"absent", "unreadable"} =>
        \A i \in 1..Len(hist_log) :
            /\ hist_log[i].outcome = "returned"
            /\ TuitionAndLabel(hist_log[i].rows) =
                  << <<8000, Some(800)>>, <<9000, Some(750)>>, <<7000, Some(600)>> >>
            /\ \A j \in 1..Len(hist_log) : j # i => hist_log[j].id # hist_log[i].id

(***************************************************************************)
(* clean_float                                                             *)
(***************************************************************************)
\* What model.generate_content(prompt) can do: raise, or answer with a text.
GeminiReplies ==
    {[raises |-> TRUE, text |-> <<>>]}
    \cup {[raises |-> FALSE, text |-> t] :
             t \in {<<"7">>, <<" ", "7", "7">>, <<"zz">>, <<>>}}

InitNorm ==
    /\ env_key \in BOOLEAN
    /\ env_genai \in BOOLEAN
    /\ gemini_cache = "unset"
    /\ cf_pc = "idle"
    /\ raw = <<>>
    /\ val = <<>>
    /\ cf_result = None
    /\ warning = None
    /\ attempts = <<>>
    /\ contacted = FALSE

\* clean_float with the word parser put before float(), as in the variants
\* that try word2number first.
clean_float_enter_words_first ==
    /\ cf_pc = "idle"
    /\ \E r \in Texts :
        /\ raw' = r
        /\ val' = Normalize(r)
        /\ IF IsNoneLike(Normalize(r))
           THEN cf_pc' = "returned" /\ cf_result' = Some(0)
           ELSE cf_pc' = "w2n" /\ cf_result' = None
    /\ warning' = None
    /\ attempts' = <<>>
    /\ contacted' = FALSE
    /\ UNCHANGED <<env_key, env_genai, gemini_cache>>
    /\ UNCHANGED <<loadVars, predVars, recVars, extVars>>

\* Lines 212-217: the call, the normalisation and the none-like test.
clean_float_enter ==
    /\ cf_pc = "idle"
    /\ \E r \in Texts :
        /\ raw' = r
        /\ val' = Normalize(r)
        /\ IF IsNoneLike(Normalize(r))
           THEN cf_pc' = "returned" /\ cf_result' = Some(0)
           ELSE cf_pc' = "float" /\ cf_result' = None
    /\ warning' = None
    /\ attempts' = <<>>
    /\ contacted' = FALSE
    /\ UNCHANGED <<env_key, env_genai, gemini_cache>>
    /\ UNCHANGED <<loadVars, predVars, recVars, extVars>>

\* Lines 219-221: float(val).
try_float ==
    /\ cf_pc = "float"
    /\ attempts' = Append(attempts, "direct")
    /\ IF FloatParse(val) # None
       THEN cf_pc' = "returned" /\ cf_result' = FloatParse(val)
       ELSE cf_pc' = "w2n" /\ UNCHANGED cf_result
    /\ UNCHANGED <<env_key, env_genai, gemini_cache, raw, val, warning, contacted>>
    /\ UNCHANGED <<loadVars, predVars, recVars, extVars>>

\* Lines 222-224: float(w2n.word_to_num(val)).
try_word_to_num ==
    /\ cf_pc = "w2n"
    /\ attempts' = Append(attempts, "words")
    /\ IF WordToNum(val) # None
       THEN cf_pc' = "returned" /\ cf_result' = WordToNum(val)
       ELSE cf_pc' = "gemini" /\ UNCHANGED cf_result
    /\ UNCHANGED <<env_key, env_genai, gemini_cache, raw, val, warning, contacted>>
    /\ UNCHANGED <<loadVars, predVars, recVars, extVars>>

\* Lines 231-237 and 244-246: _get_gemini_model() under lru_cache, called
\* from _gemini_parse_number outside its try block.  A cached value is
\* returned as it is; without a key or without the library the result None
\* is cached; otherwise genai.configure and genai.GenerativeModel run, and
\* an exception of theirs is not cached and leaves clean_float uncaught.
get_gemini_model ==
    /\ cf_pc = "gemini"
    /\ \/ /\ gemini_cache = "model"
          /\ cf_pc' = "generate"
          /\ UNCHANGED gemini_cache
       \/ /\ gemini_cache = "none"
          /\ cf_pc' = "default"
          /\ UNCHANGED gemini_cache
       \/ /\ gemini_cache = "unset"
          /\ ~(env_key /\ env_genai)
          /\ gemini_cache' = "none"
          /\ cf_pc' = "default"
       \/ /\ gemini_cache = "unset"
          /\ env_key /\ env_genai
          /\ gemini_cache' = "model"
          /\ cf_pc' = "generate"
       \/ /\ gemini_cache = "unset"
          /\ env_key /\ env_genai
          /\ cf_pc' = "raised"
          /\ UNCHANGED gemini_cache
    /\ UNCHANGED <<env_key, env_genai, raw, val, cf_result, warning, attempts,
                   contacted>>
    /\ UNCHANGED <<loadVars, predVars, recVars, extVars>>

\* Lines 247-257 and 225-227: the request to the service and float() of its
\* stripped answer, every exception caught.
gemini_generate ==
    /\ cf_pc = "generate"
    /\ attempts' = Append(attempts, "remote")
    /\ contacted' = TRUE
    /\ \E reply \in GeminiReplies :
        IF ~reply.raises /\ FloatParse(Strip(reply.text)) # None
        THEN cf_pc' = "returned" /\ cf_result' = FloatParse(Strip(reply.text))
        ELSE cf_pc' = "default" /\ UNCHANGED cf_result
    /\ UNCHANGED <<env_key, env_genai, gemini_cache, raw, val, warning>>
    /\ UNCHANGED <<loadVars, predVars, recVars, extVars>>

\* Lines 228-229: the warning and the default.
default_return ==
    /\ cf_pc = "default"
    /\ attempts' = Append(attempts, "default")
    /\ warning' = Some(val)
    /\ cf_result' = Some(0)
    /\ cf_pc' = "returned"
    /\ UNCHANGED <<env_key, env_genai, gemini_cache, raw, val, contacted>>
    /\ UNCHANGED <<loadVars, predVars, recVars, extVars>>

\* The caller takes the returned number, or the exception, and goes on; the
\* memoised service handle outlives the call.
clean_float_leave ==
    /\ cf_pc \in {"returned", "raised"}
    /\ cf_pc' = "idle"
    /\ raw' = <<>>
    /\ val' = <<>>
    /\ cf_result' = None
    /\ warning' = None
    /\ attempts' = <<>>
    /\ contacted' = FALSE
    /\ UNCHANGED <<env_key, env_genai, gemini_cache>>
    /\ UNCHANGED <<loadVars, predVars, recVars, extVars>>

NextNorm ==
    \/ clean_float_enter
    \/ clean_float_leave
    \/ try_float
    \/ try_word_to_num
    \/ get_gemini_model
    \/ gemini_generate
    \/ default_return

InitSpecNorm == InitNorm /\ IdleLoad /\ IdlePred /\ IdleRec /\ IdleExt

SpecNorm == InitSpecNorm /\ [][NextNorm]_vars

(***************************************************************************)
(* Claims about clean_float, checked under SpecNorm                        *)
(***************************************************************************)
Finished == cf_pc \in {"returned", "raised"}

Last(s) == s[Len(s)]

Attempted(l) == \E i \in 1..Len(attempts) : attempts[i] = l

\* C3: clean_float is total: whatever its parse layers do (float() fails,
\* the word parser fails, the service is unconfigured, its setup or its call
\* fails or answers with non-numeric text), the call returns a number and
\* never raises.
C3_NeverRaises ==
    /\ cf_pc # "raised"
    /\ cf_pc = "returned" => cf_result # None

LayerRank(l) ==
    CASE l = "direct" -> 1
      [] l = "words" -> 2
      [] l = "remote" -> 3
      [] l = "default" -> 4

\* C4: the layers run in the order float(), word parser, remote service,
\* default; a layer is attempted only after every earlier one failed; the
\* first layer that succeeds gives the result; the service is contacted only
\* when it is configured.
C4_LayerOrder ==
    /\ \A i, j \in 1..Len(attempts) :
          i < j => LayerRank(attempts[i]) < LayerRank(attempts[j])
    /\ attempts # <<>> => attempts[1] = "direct"
    /\ Attempted("words") => Attempted("direct") /\ FloatParse(val) = None
    /\ Attempted("remote") =>
          /\ Attempted("words")
          /\ FloatParse(val) = None /\ WordToNum(val) = None
    /\ Attempted("default") =>
          /\ Attempted("words")
          /\ FloatParse(val) = None /\ WordToNum(val) = None
          /\ Attempted("remote") \/ ~(env_key /\ env_genai)
    /\ (cf_pc = "returned" /\ attempts # <<>>) =>
          /\ FloatParse(val) # None =>
                attempts = <<"direct">> /\ cf_result = FloatParse(val)
          /\ (FloatParse(val) = None /\ WordToNum(val) # None) =>
                attempts = <<"direct", "words">> /\ cf_result = WordToNum(val)
          /\ Last(attempts) = "default" => cf_result = Some(0)
    /\ contacted => env_key /\ env_genai
    /\ contacted <=> Attempted("remote")

\* C4's case: both local layers failed, the configured service was asked and
\* its answer became the result.
C4_Witness ==
    /\ cf_pc = "returned"
    /\ attempts = <<"direct", "words", "remote">>
    /\ contacted
    /\ cf_result = Some(77)

\* The remote layer yielded the number of the finished call.
RemoteSucceeded ==
    cf_pc = "returned" /\ attempts # <<>> /\ Last(attempts) = "remote"

AllLayersFailed ==
    /\ Finished
    /\ ~IsNoneLike(val)
    /\ FloatParse(val) = None
    /\ WordToNum(val) = None
    /\ ~RemoteSucceeded

\* C5: when every layer has failed the call returns exactly 0 and prints a
\* warning naming the unparsed text, and a warning is printed in no other
\* case.
C5_DefaultOnlyWhenAllFail ==
    /\ AllLayersFailed =>
          cf_pc = "returned" /\ cf_result = Some(0) /\ warning = Some(val)
    /\ warning # None => AllLayersFailed

\* The none-like test as C6 words it: "$" and "," removed first, then the
\* surrounding whitespace, then lower case.
ClaimedNoneLike(r) ==
    LET v == Lower(Strip(Remove(Remove(r, "$"), ","))) IN
    v = <<>> \/ v \in NoneTokens

\* C6: an argument that is empty or "none", "nothing" or "nil" once "$" and
\* "," are removed, the surrounding whitespace trimmed and the case lowered
\* returns 0 with no parse layer attempted and the service not contacted.
C6_NoneLikeReturnsZeroAtOnce ==
    (cf_pc # "idle" /\ ClaimedNoneLike(raw)) =>
        /\ attempts = <<>>
        /\ ~contacted
        /\ Finished => cf_pc = "returned" /\ cf_result = Some(0)

(***************************************************************************)
(* train_model and predict_safe_rent                                       *)
(*                                                                         *)
(* Money in a profile is in whole dollars.  A fitted model is its seven    *)
(* coefficients and its intercept in thousandths of a dollar, so the       *)
(* linear map yields thousandths of a dollar; the value returned by        *)
(* predict_safe_rent is in cents.                                          *)
(***************************************************************************)
Fields == {"tuition", "bank_balance", "part_time_income", "internship_income",
           "scholarships", "loans", "months"}

FullProfile ==
    [tuition |-> 8000, bank_balance |-> 1500, part_time_income |-> 1000,
     internship_income |-> 500, scholarships |-> 2000, loans |-> 3000,
     months |-> 12]

Restrict(f, S) == [k \in S |-> f[k]]

\* The profiles tried: all seven fields, none, every single one, all but one.
Profiles ==
    {Restrict(FullProfile, S) :
        S \in {Fields, {}} \cup {{k} : k \in Fields}
              \cup {Fields \ {k} : k \in Fields}}

\* What the least-squares fit may produce.
SampleModels ==
    { [coef |-> <<50, 20, 300, 310, 10, -5, 1000>>, intercept |-> 123455],
      [coef |-> <<-100, 0, 0, 0, 0, 0, -50000>>, intercept |-> 200003],
      [coef |-> <<0, 0, 0, 0, 0, 0, 2>>, intercept |-> 716649] }

\* dict.get(key, default)
Get(d, key, default) == IF key \in DOMAIN d THEN d[key] ELSE default

\* Lines 54-62 with months defaulting to 7, as in other variants.
FeaturesMonthsSeven(user_input) ==
    << Get(user_input, "tuition", 0),
       Get(user_input, "bank_balance", 0),
       Get(user_input, "part_time_income", 0),
       Get(user_input, "internship_income", 0),
       Get(user_input, "scholarships", 0),
       Get(user_input, "loans", 0),
       Get(user_input, "months", 7) >>

\* Lines 54-62: the feature row.
Features(user_input) ==
    << Get(user_input, "tuition", 0),
       Get(user_input, "bank_balance", 0),
       Get(user_input, "part_time_income", 0),
       Get(user_input, "internship_income", 0),
       Get(user_input, "scholarships", 0),
       Get(user_input, "loans", 0),
       Get(user_input, "months", 8) >>

RECURSIVE Dot(_, _)
Dot(a, b) == IF a = <<>> THEN 0 ELSE Head(a) * Head(b) + Dot(Tail(a), Tail(b))

\* Line 63: model.predict(features)[0], in thousandths of a dollar.
LinearMap(m, f) == m.intercept + Dot(m.coef, f)

\* max(a, b)
Max(a, b) == IF a >= b THEN a ELSE b

\* round(x, 2) for x >= 0 in thousandths of a dollar: the nearest cent, a
\* tie going to the even cent.
RoundToCents(x) ==
    LET q == x \div 10
        r == x % 10
    IN  IF r < 5 THEN q
        ELSE IF r > 5 THEN q + 1
        ELSE IF q % 2 = 0 THEN q ELSE q + 1

\* Line 64 without the clamp: round(rent, 2).
RoundOnly(rent) == RoundToCents(rent)

\* Line 64: round(max(rent, 0.0), 2), in cents.
ClampAndRound(rent) == RoundToCents(Max(rent, 0))

\* Lines 53-64 as one function.
predict_safe_rent(m, user_input) ==
    ClampAndRound(LinearMap(m, Features(user_input)))

InitPred ==
    /\ model = None
    /\ fit_raised = FALSE
    /\ p_pc = [t \in Callers |-> "idle"]
    /\ p_model = [t \in Callers |-> None]
    /\ p_input = [t \in Callers |-> <<>>]
    /\ p_given = [t \in Callers |-> None]
    /\ p_features = [t \in Callers |-> <<>>]
    /\ p_rent = [t \in Callers |-> 0]
    /\ p_result = [t \in Callers |-> None]

\* Lines 34-39: a new LinearRegression fitted on the frame; fitting on a
\* frame without rows raises.
TrainModel ==
    /\ df_train # None
    /\ IF df_train[1] = <<>>
       THEN fit_raised' = TRUE /\ UNCHANGED model
       ELSE /\ fit_raised' = FALSE
            /\ \E m \in SampleModels : model' = Some(m)
    /\ UNCHANGED <<p_pc, p_model, p_input, p_given, p_features, p_rent, p_result>>
    /\ UNCHANGED <<normVars, loadVars, recVars, extVars>>

\* Lines 54-62 written with user_input.setdefault('months', 8): the caller's
\* dict gains the key.
BuildFeaturesSetDefault(t) ==
    /\ p_pc[t] = "idle"
    /\ model # None
    /\ \E u \in Profiles :
        /\ p_input' = [p_input EXCEPT
                         ![t] = [k \in DOMAIN u \cup {"months"} |->
                                   Get(u, k, 8)]]
        /\ p_given' = [p_given EXCEPT ![t] = Some([model |-> model[1], input |-> u])]
        /\ p_features' = [p_features EXCEPT ![t] = Features(u)]
    /\ p_model' = [p_model EXCEPT ![t] = model]
    /\ p_pc' = [p_pc EXCEPT ![t] = "predict"]
    /\ p_result' = [p_result EXCEPT ![t] = None]
    /\ UNCHANGED <<model, fit_raised, p_rent>>
    /\ UNCHANGED <<normVars, loadVars, recVars, extVars>>

\* A caller passes the current model and a profile: lines 53-62, the
\* feature row built from the dict.
BuildFeatures(t) ==
    /\ p_pc[t] = "idle"
    /\ model # None
    /\ \E u \in Profiles :
        /\ p_input' = [p_input EXCEPT ![t] = u]
        /\ p_given' = [p_given EXCEPT ![t] = Some([model |-> model[1], input |-> u])]
        /\ p_features' = [p_features EXCEPT ![t] = Features(u)]
    /\ p_model' = [p_model EXCEPT ![t] = model]
    /\ p_pc' = [p_pc EXCEPT ![t] = "predict"]
    /\ p_result' = [p_result EXCEPT ![t] = None]
    /\ UNCHANGED <<model, fit_raised, p_rent>>
    /\ UNCHANGED <<normVars, loadVars, recVars, extVars>>

\* Line 63: rent = model.predict(features)[0].
ModelPredict(t) ==
    /\ p_pc[t] = "predict"
    /\ p_rent' = [p_rent EXCEPT ![t] = LinearMap(p_model[t][1], p_features[t])]
    /\ p_pc' = [p_pc EXCEPT ![t] = "round"]
    /\ UNCHANGED <<model, fit_raised, p_model, p_input, p_given, p_features,
                   p_result>>
    /\ UNCHANGED <<normVars, loadVars, recVars, extVars>>

\* Line 64: return round(max(rent, 0.0), 2).
PredictReturn(t) ==
    /\ p_pc[t] = "round"
    /\ p_result' = [p_result EXCEPT ![t] = Some(ClampAndRound(p_rent[t]))]
    /\ p_pc' = [p_pc EXCEPT ![t] = "returned"]
    /\ UNCHANGED <<model, fit_raised, p_model, p_input, p_given, p_features,
                   p_rent>>
    /\ UNCHANGED <<normVars, loadVars, recVars, extVars>>

\* The caller has its value and may call again.
PredictLeave(t) ==
    /\ p_pc[t] = "returned"
    /\ p_pc' = [p_pc EXCEPT ![t] = "idle"]
    /\ p_model' = [p_model EXCEPT ![t] = None]
    /\ p_input' = [p_input EXCEPT ![t] = <<>>]
    /\ p_given' = [p_given EXCEPT ![t] = None]
    /\ p_features' = [p_features EXCEPT ![t] = <<>>]
    /\ p_rent' = [p_rent EXCEPT ![t] = 0]
    /\ p_result' = [p_result EXCEPT ![t] = None]
    /\ UNCHANGED <<model, fit_raised>>
    /\ UNCHANGED <<normVars, loadVars, recVars, extVars>>

NextPred ==
    \/ TrainModel
    \/ \E t \in Callers : BuildFeatures(t)
    \/ \E t \in Callers : ModelPredict(t)
    \/ \E t \in Callers : PredictReturn(t)
    \/ \E t \in Callers : PredictLeave(t)

\* The training frame is the built-in one, loaded before the first fit.
InitSpecPred ==
    /\ IdleNorm
    /\ IdleRec
    /\ IdleExt
    /\ InitPred
    /\ histFile = [state |-> "absent", rows |-> <<>>]
    /\ subFile = [state |-> "absent", rows |-> <<>>]
    /\ next_id = 1
    /\ hist_log = <<[outcome |-> "returned", id |-> 0,
                     rows |-> load_historical_data(histFile).rows]>>
    /\ df_train = Some(load_historical_data(histFile).rows)
    /\ sub_outcome = "none"
    /\ sub_warned = FALSE
    /\ sublets_df = None

SpecPred == InitSpecPred /\ [][NextPred]_vars

(***************************************************************************)
(* Claims about predict_safe_rent, checked under SpecPred                  *)
(***************************************************************************)
Abs(x) == IF x < 0 THEN 0 - x ELSE x

\* C2: for every fitted model and every profile the returned value is at
\* least 0 and is the linear map's value rounded to the cent; where the
\* linear map is negative the returned value is exactly 0.
C2_ClampedAndRounded ==
    \A t \in Callers :
        p_pc[t] = "returned" =>
            /\ p_result[t] # None
            /\ p_result[t][1] >= 0
            /\ p_rent[t] = LinearMap(p_model[t][1], p_features[t])
            /\ p_rent[t] < 0 => p_result[t][1] = 0
            /\ p_rent[t] >= 0 => Abs(10 * p_result[t][1] - p_rent[t]) <= 5

\* C2's case: a call whose linear map was negative has returned.
C2_Witness ==
    \E t \in Callers :
        p_pc[t] = "returned" /\ p_rent[t] < 0 /\ p_result[t] = Some(0)

\* C7: a call changes neither the model nor the profile it was given, what
\* it returns is what the function gives for that model and that profile
\* however the calls of the two callers interleave, and two calls given the
\* same model and profile return the same value.
C7_PureAndDeterministic ==
    /\ \A t \in Callers :
          p_pc[t] # "idle" =>
              /\ p_model[t] = Some(p_given[t][1].model)
              /\ p_input[t] = p_given[t][1].input
              /\ p_pc[t] = "returned" =>
                    p_result[t] =
                        Some(predict_safe_rent(p_given[t][1].model,
                                               p_given[t][1].input))
    /\ \A t, u \in Callers :
          (p_pc[t] = "returned" /\ p_pc[u] = "returned" /\ p_given[t] = p_given[u])
              => p_result[t] = p_result[u]

\* C7's case: both callers were inside a call on the same model with the
\* same profile at the same time, one has returned and the other is about to.
C7_Witness ==
    /\ p_pc[1] = "returned" /\ p_pc[2] = "round"
    /\ p_given[1] = p_given[2]
    /\ DOMAIN p_input[1] # Fields

\* The order of the feature row as C8 states it.
FieldOrder ==
    <<"tuition", "bank_balance", "part_time_income", "internship_income",
      "scholarships", "loans", "months">>

\* A profile with its absent fields filled in: money 0, months 8.
Completed(u) ==
    [k \in Fields |->
        IF k \in DOMAIN u THEN u[k] ELSE IF k = "months" THEN 8 ELSE 0]

\* C8: the feature row holds tuition, bank_balance, part_time_income,
\* internship_income, scholarships, loans, months in that order, an absent
\* money field as 0 and an absent months as 8, so a partial profile predicts
\* what the profile completed by those defaults predicts.
C8_FeatureOrderAndDefaults ==
    \A t \in Callers :
        /\ p_pc[t] \in {"predict", "round", "returned"} =>
              /\ Len(p_features[t]) = 7
              /\ \A i \in 1..7 :
                    p_features[t][i] = Completed(p_input[t])[FieldOrder[i]]
        /\ p_pc[t] = "returned" =>
              p_result[t] =
                  Some(predict_safe_rent(p_model[t][1], Completed(p_input[t])))

\* C8's case: a call with a profile that lacks months, on a model whose
\* months coefficient is not 0, has returned a positive value.
C8_Witness ==
    \E t \in Callers :
        /\ p_pc[t] = "returned"
        /\ "months" \notin DOMAIN p_input[t]
        /\ "tuition" \in DOMAIN p_input[t]
        /\ p_model[t][1].coef[7] # 0
        /\ p_result[t][1] > 0

(***************************************************************************)
(* recommend_apartments                                                    *)
(***************************************************************************)
\* The most rows of the frame passed to recommend_apartments.
MaxListings == 3

\* Rows of a frame load_sublets returned: the rent a number of dollars.
LoadedListingRows ==
    { [address |-> "A", monthly_rent |-> Some(0)],
      [address |-> "B", monthly_rent |-> Some(200)],
      [address |-> "C", monthly_rent |-> Some(900)],
      [address |-> "E", monthly_rent |-> Some(500)] }

\* Values of safe_rent, in cents.
SampleSafeRents == {0, 19999, 20000, 50000, 50001, 102046}

\* monthly_rent < safe_rent, the boundary left out.
RentBelow(cell, safe) == cell # None /\ 100 * cell[1] < safe

\* Line 68: monthly_rent <= safe_rent on one cell; NaN compares false.
RentWithin(cell, safe) == cell # None /\ 100 * cell[1] <= safe

\* Line 68: sublets_df[sublets_df['monthly_rent'] <= safe_rent], a new frame.
recommend_apartments(safe, frame) ==
    SelectSeq(frame, LAMBDA r : RentWithin(r.monthly_rent, safe))

InitRec ==
    /\ rec_in \in SeqsUpTo(LoadedListingRows, MaxListings)
    /\ rec_given = rec_in
    /\ rec_safe = 0
    /\ recommendations = None

\* A call of recommend_apartments(safe_rent, sublets_df).
Recommend ==
    /\ \E safe \in SampleSafeRents :
        /\ rec_safe' = safe
        /\ recommendations' = Some(recommend_apartments(safe, rec_in))
    /\ rec_given' = rec_in
    /\ UNCHANGED rec_in
    /\ UNCHANGED <<normVars, loadVars, predVars, extVars>>

NextRec ==
    \/ Recommend

InitSpecRec == IdleNorm /\ IdleLoad /\ IdlePred /\ InitRec /\ IdleExt

SpecRec == InitSpecRec /\ [][NextRec]_vars

(***************************************************************************)
(* Claims about recommend_apartments, checked under SpecRec                *)
(***************************************************************************)
\* The positions of the listings whose rent is at most safe (in cents).
Affordable(R, safe) ==
    {i \in 1..Len(R) : R[i].monthly_rent # None /\ R[i].monthly_rent[1] * 100 <= safe}

KthAffordable(R, safe, k) ==
    CHOOSE i \in Affordable(R, safe) :
        Cardinality({j \in Affordable(R, safe) : j <= i}) = k

\* C1: the result holds exactly the listings with monthly_rent <= safe_rent,
\* one with rent equal to safe_rent included, in the order of the input, and
\* the input frame is left as it was.
C1_ExactlyTheAffordable ==
    recommendations # None =>
        /\ rec_in = rec_given
        /\ Len(recommendations[1]) = Cardinality(Affordable(rec_given, rec_safe))
        /\ \A k \in 1..Len(recommendations[1]) :
              recommendations[1][k] = rec_given[KthAffordable(rec_given, rec_safe, k)]

\* C1's case: of three listings the one above safe_rent is left out and the
\* one at exactly safe_rent is kept, after a cheaper one.
C1_Witness ==
    /\ recommendations # None
    /\ Len(rec_in) = 3
    /\ rec_safe = 50000
    /\ Len(recommendations[1]) = 2
    /\ recommendations[1][2].monthly_rent = Some(500)
    /\ rec_in[1].monthly_rent = Some(900)

(***************************************************************************)
(* The orchestrators                                                       *)
(*                                                                         *)
(* One run of the CLI calculator (main.run_cli_mode), of the voice         *)
(* interaction (audio_repeat.process_speech_interaction) or of the         *)
(* dashboard's results step (dashboard.py), from the answers of the user   *)
(* to the report.  An exception that nothing catches ends the run.         *)
(***************************************************************************)
Orchestrators == {"cli", "voice", "dash"}

\* The steps of a run in the order of the code.  The CLI loads everything
\* inside get_model() (initialize_system, lines 47-56) before it predicts;
\* the dashboard script fetches the history (lines 563-583) before the
\* results step and logs between recommending and displaying.
Order(kind) ==
    IF kind = "cli"
    THEN <<"gather", "load_hist", "train", "load_sub", "predict", "recommend",
           "report", "done">>
    ELSE IF kind = "voice"
    THEN <<"gather", "load_hist", "train", "predict", "load_sub", "recommend",
           "report", "done">>
    ELSE <<"history", "gather", "load_hist", "train", "predict", "load_sub",
           "recommend", "log_rec", "log_budget", "report", "done">>

After(kind, step) ==
    Order(kind)[(CHOOSE i \in 1..Len(Order(kind)) : Order(kind)[i] = step) + 1]

\* What the user may type or say for one question.
PipeTexts == {<<"7">>, <<"-", "7">>, <<"0">>, <<>>, <<"zz">>, <<"$", "7", "7">>}

\* The text answered to the questions the run does not vary.
PlainAnswer == <<"7", "7">>

\* main.py lines 92-98: float() of the stripped line, the default for an
\* empty line or one float() rejects.
get_input(text, default) ==
    LET value == Strip(text) IN
    IF value = <<>> THEN default
    ELSE IF FloatParse(value) # None THEN FloatParse(value)[1]
    ELSE default

\* clean_float (audio_repeat.py lines 212-229) where no Gemini model is
\* configured, so that _gemini_parse_number returns None.
clean_float_offline(text) ==
    LET v == Normalize(text) IN
    IF IsNoneLike(v) THEN 0
    ELSE IF FloatParse(v) # None THEN FloatParse(v)[1]
    ELSE IF WordToNum(v) # None THEN WordToNum(v)[1]
    ELSE 0

\* int(x) of a float holding a whole number.
IntOf(x) == x

\* main.py lines 100-108: the dict of the CLI; months stays a float.
cli_user_input(t1, t7) ==
    [tuition |-> get_input(t1, 8000),
     bank_balance |-> get_input(PlainAnswer, 1500),
     part_time_income |-> get_input(PlainAnswer, 1000),
     internship_income |-> get_input(PlainAnswer, 0),
     scholarships |-> get_input(PlainAnswer, 2000),
     loans |-> get_input(PlainAnswer, 1500),
     months |-> get_input(t7, 8)]

\* audio_repeat.py lines 309-328: gather_user_input.
gather_user_input(t1, t7) ==
    [tuition |-> clean_float_offline(t1),
     bank_balance |-> clean_float_offline(PlainAnswer),
     part_time_income |-> clean_float_offline(PlainAnswer),
     internship_income |-> clean_float_offline(PlainAnswer),
     scholarships |-> clean_float_offline(PlainAnswer),
     loans |-> clean_float_offline(PlainAnswer),
     months |-> IntOf(clean_float_offline(t7))]

\* dashboard.py lines 639-647: the answers of the auto-fill button.
DemoAnswers == <<12000, 1500, 800, 1200, 2000, 3000, 8>>

\* dashboard.py lines 790-798: the dict built from the seven answers.
dash_user_input(given) ==
    [tuition |-> given[1],
     bank_balance |-> given[2],
     part_time_income |-> given[3],
     internship_income |-> given[4],
     scholarships |-> given[5],
     loans |-> given[6],
     months |-> IntOf(given[7])]

\* dashboard.py line 708: the answers of a user who typed every one.
TypedAnswers(t1, t7) ==
    <<clean_float_offline(t1), clean_float_offline(PlainAnswer),
      clean_float_offline(PlainAnswer), clean_float_offline(PlainAnswer),
      clean_float_offline(PlainAnswer), clean_float_offline(PlainAnswer),
      clean_float_offline(t7)>>

\* model.fit with every frame accepted.
FitNeverRaises(rows) == FALSE

\* affordability_model.py line 38: LinearRegression.fit raises ValueError on
\* a frame without rows.
FitRaises(rows) == rows = <<>>

\* The states of the warehouse as the dashboard sees it.
WarehouseStates == {"no_connector", "unconfigured", "configured"}

\* A warehouse call whose failure leaves the function as an exception.
snowflake_call_raising(wh, fails) ==
    IF wh = "no_connector" THEN "raised"
    ELSE IF wh = "unconfigured" THEN "raised"
    ELSE IF fails THEN "raised"
    ELSE "ok"

\* dashboard.py lines 301-349, 351-404, 406-464, 466-503: how a warehouse
\* function ends.  Without the connector or the configuration it returns a
\* message; a failure of connect or execute is caught and returned as one.
snowflake_call(wh, fails) ==
    IF wh = "no_connector" THEN "error"
    ELSE IF wh = "unconfigured" THEN "error"
    ELSE IF fails THEN "error"
    ELSE "ok"

PipeHistFiles ==
    { [state |-> "absent", rows |-> <<>>],
      [state |-> "unreadable", rows |-> <<>>],
      [state |-> "ok", rows |-> <<>>],
      [state |-> "ok",
       rows |-> <<[features |-> <<9000, 2000, 0, 0, 1000, 3000, 8>>,
                   safe_rent |-> <<"N/A">>]>>],
      [state |-> "ok",
       rows |-> <<[features |-> <<8000, 1500, 1000, 0, 2000, 1500, 8>>,
                   safe_rent |-> <<"8", "0", "0">>]>>] }

PipeSubFiles ==
    { [state |-> "absent", rows |-> <<>>],
      [state |-> "unreadable", rows |-> <<>>],
      [state |-> "ok", rows |-> <<>>],
      [state |-> "ok", rows |-> <<[address |-> "D", monthly_rent |-> <<"zz">>]>>],
      [state |-> "ok", rows |-> <<[address |-> "C", monthly_rent |-> <<"9", "0", "0">>]>>],
      [state |-> "ok",
       rows |-> <<[address |-> "C", monthly_rent |-> <<"9", "0", "0">>],
                  [address |-> "B", monthly_rent |-> <<"2", "0", "0">>]>>],
      [state |-> "ok",
       rows |-> <<[address |-> "B", monthly_rent |-> <<"2", "0", "0">>],
                  [address |-> "A", monthly_rent |-> <<"0">>]>>] }

InitPipe ==
    /\ o_kind \in Orchestrators
    /\ o_pc = Order(o_kind)[1]
    /\ o_input = None
    /\ o_train = None
    /\ o_model = None
    /\ o_safe = None
    /\ o_listings = None
    /\ o_recs = None
    /\ o_warnings = {}
    /\ o_message = "none"
    /\ o_shown = <<>>
    /\ o_error = "none"
    /\ warehouse \in WarehouseStates

\* dashboard.py lines 563-583: the two history expanders; a failed fetch
\* is shown with st.warning.
fetch_history ==
    /\ o_pc = "history"
    /\ \E fails \in BOOLEAN :
        LET r == snowflake_call(warehouse, fails) IN
        IF r = "raised"
        THEN /\ o_pc' = "aborted"
             /\ o_error' = "warehouse"
             /\ UNCHANGED o_warnings
        ELSE /\ o_pc' = After(o_kind, "history")
             /\ o_warnings' = IF r = "error" THEN o_warnings \cup {"history"}
                              ELSE o_warnings
             /\ UNCHANGED o_error
    /\ UNCHANGED <<o_kind, o_shown, o_input, o_train, o_model, o_safe, o_listings,
                   o_recs, o_message, warehouse>>
    /\ UNCHANGED notPipe

\* main.py lines 100-108.
cli_gather ==
    /\ o_kind = "cli"
    /\ o_pc = "gather"
    /\ \E t1 \in PipeTexts, t7 \in PipeTexts :
        o_input' = Some(cli_user_input(t1, t7))
    /\ o_pc' = After(o_kind, "gather")
    /\ UNCHANGED <<o_kind, o_shown, o_train, o_model, o_safe, o_listings, o_recs,
                   o_warnings, o_message, o_error, warehouse>>
    /\ UNCHANGED notPipe

\* audio_repeat.py line 344.
voice_gather ==
    /\ o_kind = "voice"
    /\ o_pc = "gather"
    /\ \E t1 \in PipeTexts, t7 \in PipeTexts :
        o_input' = Some(gather_user_input(t1, t7))
    /\ o_pc' = After(o_kind, "gather")
    /\ UNCHANGED <<o_kind, o_shown, o_train, o_model, o_safe, o_listings, o_recs,
                   o_warnings, o_message, o_error, warehouse>>
    /\ UNCHANGED notPipe

\* dashboard.py lines 704-715 and 790-798: the answers were typed, none of
\* them blank (a blank answer is refused at line 705).
dash_typed ==
    /\ o_kind = "dash"
    /\ o_pc = "gather"
    /\ \E t1 \in PipeTexts, t7 \in PipeTexts :
        /\ Strip(t1) # <<>>
        /\ Strip(t7) # <<>>
        /\ o_input' = Some(dash_user_input(TypedAnswers(t1, t7)))
    /\ o_pc' = After(o_kind, "gather")
    /\ UNCHANGED <<o_kind, o_shown, o_train, o_model, o_safe, o_listings, o_recs,
                   o_warnings, o_message, o_error, warehouse>>
    /\ UNCHANGED notPipe

\* dashboard.py lines 637-654 and 790-798: the answers of the demo button.
dash_autofill ==
    /\ o_kind = "dash"
    /\ o_pc = "gather"
    /\ o_input' = Some(dash_user_input(DemoAnswers))
    /\ o_pc' = After(o_kind, "gather")
    /\ UNCHANGED <<o_kind, o_shown, o_train, o_model, o_safe, o_listings, o_recs,
                   o_warnings, o_message, o_error, warehouse>>
    /\ UNCHANGED notPipe

\* main.py line 47, audio_repeat.py line 347, dashboard.py lines 162-164.
pipe_load_historical ==
    /\ o_pc = "load_hist"
    /\ LET r == load_historical_data(histFile) IN
       IF r.raised
       THEN /\ o_pc' = "aborted"
            /\ o_error' = "load_hist"
            /\ UNCHANGED o_train
       ELSE /\ o_pc' = After(o_kind, "load_hist")
            /\ o_train' = Some(r.rows)
            /\ UNCHANGED o_error
    /\ UNCHANGED <<o_kind, o_shown, o_input, o_model, o_safe, o_listings, o_recs,
                   o_warnings, o_message, warehouse>>
    /\ UNCHANGED notPipe

\* main.py line 51, audio_repeat.py line 349, dashboard.py lines 166-169:
\* train_model(df_train); its exception is caught nowhere.
pipe_train_model ==
    /\ o_pc = "train"
    /\ IF FitRaises(o_train[1])
       THEN /\ o_pc' = "aborted"
            /\ o_error' = "fit"
            /\ UNCHANGED o_model
       ELSE /\ o_pc' = After(o_kind, "train")
            /\ \E m \in SampleModels : o_model' = Some(m)
            /\ UNCHANGED o_error
    /\ UNCHANGED <<o_kind, o_shown, o_input, o_train, o_safe, o_listings, o_recs,
                   o_warnings, o_message, warehouse>>
    /\ UNCHANGED notPipe

\* main.py line 116, audio_repeat.py line 351, dashboard.py line 801.
pipe_predict ==
    /\ o_pc = "predict"
    /\ o_safe' = Some(predict_safe_rent(o_model[1], o_input[1]))
    /\ o_pc' = After(o_kind, "predict")
    /\ UNCHANGED <<o_kind, o_shown, o_input, o_train, o_model, o_listings, o_recs,
                   o_warnings, o_message, o_error, warehouse>>
    /\ UNCHANGED notPipe

\* main.py line 56, audio_repeat.py line 356, dashboard.py line 802.
pipe_load_sublets ==
    /\ o_pc = "load_sub"
    /\ LET r == load_sublets(subFile) IN
       IF r.raised
       THEN /\ o_pc' = "aborted"
            /\ o_error' = "load_sub"
            /\ UNCHANGED <<o_listings, o_warnings>>
       ELSE /\ o_pc' = After(o_kind, "load_sub")
            /\ o_listings' = Some(r.rows)
            /\ o_warnings' = IF r.warned
                             THEN o_warnings \cup {"sublets_missing"}
                             ELSE o_warnings
            /\ UNCHANGED o_error
    /\ UNCHANGED <<o_kind, o_shown, o_input, o_train, o_model, o_safe, o_recs,
                   o_message, warehouse>>
    /\ UNCHANGED notPipe

\* main.py line 134, audio_repeat.py line 358, dashboard.py line 803.
pipe_recommend ==
    /\ o_pc = "recommend"
    /\ o_recs' = Some(recommend_apartments(o_safe[1], o_listings[1]))
    /\ o_pc' = After(o_kind, "recommend")
    /\ UNCHANGED <<o_kind, o_shown, o_input, o_train, o_model, o_safe, o_listings,
                   o_warnings, o_message, o_error, warehouse>>
    /\ UNCHANGED notPipe

\* dashboard.py lines 805-817: the two log calls; an error message is shown
\* with st.warning and the script goes on.
log_to_warehouse ==
    /\ o_pc \in {"log_rec", "log_budget"}
    /\ \E fails \in BOOLEAN :
        LET r == snowflake_call(warehouse, fails) IN
        IF r = "raised"
        THEN /\ o_pc' = "aborted"
             /\ o_error' = "warehouse"
             /\ UNCHANGED o_warnings
        ELSE /\ o_pc' = After(o_kind, o_pc)
             /\ o_warnings' = IF r = "error" THEN o_warnings \cup {o_pc}
                              ELSE o_warnings
             /\ UNCHANGED o_error
    /\ UNCHANGED <<o_kind, o_shown, o_input, o_train, o_model, o_safe, o_listings,
                   o_recs, o_message, warehouse>>
    /\ UNCHANGED notPipe

\* main.py lines 139-157: what the CLI prints about the result.
cli_report(recs, listings) ==
    IF Len(recs) > 0 THEN "listed"
    ELSE IF Len(listings) > 0 THEN "none_within_budget"
    ELSE "none_available"

\* audio_repeat.py lines 360-366.
voice_report(recs, listings) ==
    IF recs # <<>> THEN "listed" ELSE "none_within_budget"

\* dashboard.py lines 823-835.
dash_report(recs, listings) ==
    IF recs # <<>> THEN "listed" ELSE "none_within_budget"

\* The row put into a list sorted by rent, after the rows that are not
\* dearer.
RECURSIVE InsertByRent(_, _)
InsertByRent(row, sorted) ==
    IF sorted = <<>> THEN <<row>>
    ELSE IF row.monthly_rent[1] < Head(sorted).monthly_rent[1]
         THEN <<row>> \o sorted
    ELSE <<Head(sorted)>> \o InsertByRent(row, Tail(sorted))

\* DataFrame.sort_values('monthly_rent'): ascending.
RECURSIVE sort_values(_)
sort_values(rows) ==
    IF rows = <<>> THEN <<>>
    ELSE InsertByRent(rows[Len(rows)], sort_values(SubSeq(rows, 1, Len(rows) - 1)))

\* DataFrame.head(n)
Take(rows, n) == SubSeq(rows, 1, IF Len(rows) < n THEN Len(rows) ELSE n)

\* main.py lines 139-151: the rows printed, sorted by rent.
cli_listing(recs) == sort_values(recs)

\* audio_repeat.py lines 360-363: the addresses narrated, in frame order.
voice_listing(recs) == recs

\* dashboard.py lines 823-831: the table shows the frame as it is; the
\* chart shows its first ten rows.
dash_listing(recs) == recs

dash_chart(recs) == Take(recs, 10)

\* The report of the run, by its orchestrator.
report ==
    /\ o_pc = "report"
    /\ o_message' = IF o_kind = "cli" THEN cli_report(o_recs[1], o_listings[1])
                    ELSE IF o_kind = "voice"
                    THEN voice_report(o_recs[1], o_listings[1])
                    ELSE dash_report(o_recs[1], o_listings[1])
    /\ o_shown' = IF o_kind = "cli" THEN cli_listing(o_recs[1])
                  ELSE IF o_kind = "voice" THEN voice_listing(o_recs[1])
                  ELSE dash_listing(o_recs[1])
    /\ o_pc' = After(o_kind, "report")
    /\ UNCHANGED <<o_kind, o_input, o_train, o_model, o_safe, o_listings,
                   o_recs, o_warnings, o_error, warehouse>>
    /\ UNCHANGED notPipe

NextPipe ==
    \/ fetch_history
    \/ cli_gather
    \/ voice_gather
    \/ dash_typed
    \/ dash_autofill
    \/ pipe_load_historical
    \/ pipe_train_model
    \/ pipe_predict
    \/ pipe_load_sublets
    \/ pipe_recommend
    \/ log_to_warehouse
    \/ report

InitSpecPipe ==
    /\ IdleNorm
    /\ IdlePred
    /\ IdleRec
    /\ histFile \in PipeHistFiles
    /\ subFile \in PipeSubFiles
    /\ next_id = 0
    /\ hist_log = <<>>
    /\ df_train = None
    /\ sub_outcome = "none"
    /\ sub_warned = FALSE
    /\ sublets_df = None
    /\ InitPipe
    /\ IdleAudio
    /\ IdleHttp
    /\ IdleDash
    /\ IdleMore

SpecPipe == InitSpecPipe /\ [][NextPipe]_vars

(***************************************************************************)
(* Claims about the orchestrators, checked under SpecPipe                  *)
(***************************************************************************)
\* The run is past the step.
Past(step) ==
    \E i, j \in 1..Len(Order(o_kind)) :
        /\ Order(o_kind)[i] = step
        /\ Order(o_kind)[j] = o_pc
        /\ i < j

\* C11: when sublets.csv is missing, load_sublets returns a frame without
\* rows and prints its warning, recommend_apartments on that frame returns
\* a frame without rows, and the run goes on to its report: the missing
\* listings never end it.
C11_MissingListingsContinue ==
    subFile.state = "absent" =>
        /\ o_error # "load_sub"
        /\ o_pc = "aborted" => o_error \in {"load_hist", "fit"}
        /\ Past("load_sub") =>
              /\ o_listings = Some(<<>>)
              /\ "sublets_missing" \in o_warnings
        /\ Past("recommend") => o_recs = Some(<<>>)
        /\ o_pc = "done" => o_message # "none"

\* C11's case: a run without sublets.csv has warned, recommended nothing
\* and finished its report.
C11_Witness ==
    /\ subFile.state = "absent"
    /\ o_pc = "done"
    /\ o_listings = Some(<<>>)
    /\ o_recs = Some(<<>>)
    /\ "sublets_missing" \in o_warnings
    /\ o_safe # None

\* C12: when the training frame has no rows, train_model raises and the
\* run ends there: it holds no model, predicts no rent and recommends
\* nothing.
C12_EmptyTrainingAborts ==
    (o_train # None /\ o_train[1] = <<>>) =>
        /\ o_pc \in {"train", "aborted"}
        /\ o_pc = "aborted" => o_error = "fit"
        /\ o_model = None
        /\ o_safe = None
        /\ o_recs = None
        /\ o_message = "none"

\* C12's case: historical_students.csv is present, its only row has a
\* label that is no number, and the run ended in train_model.
C12_Witness ==
    /\ histFile.state = "ok"
    /\ Len(histFile.rows) = 1
    /\ o_train = Some(<<>>)
    /\ o_pc = "aborted"
    /\ o_error = "fit"

(***************************************************************************)
(* A further claim about the loaders, checked under SpecLoad               *)
(***************************************************************************)
\* C13: neither loader ever raises: whatever the state of its file
\* (missing, unreadable, without rows, without the key column), every call
\* of load_historical_data and of load_sublets returns a frame.
C13_LoadersNeverRaise ==
    /\ \A i \in 1..Len(hist_log) : hist_log[i].outcome = "returned"
    /\ sub_outcome # "raised"

(***************************************************************************)
(* The playback queue                                                      *)
(*                                                                         *)
(* dashboard._speak always calls speak_text with async_playback=True, so   *)
(* every narration of a session ends in _enqueue_audio.  The sessions of   *)
(* the dashboard run in threads of one process and share the module's      *)
(* queue, event and _AUDIO_THREAD.  A block under _AUDIO_QUEUE_LOCK is one *)
(* step; _ensure_audio_worker takes no lock, so each of its statements is  *)
(* a step of its own.                                                      *)
(***************************************************************************)
\* The most narrations requested in a run.
MaxNarrations == 3

\* threading.Thread.is_alive(): started and not ended; _audio_worker never
\* returns.
IsAlive(w) == w_pc[w] \notin {"unborn", "created"}

\* dashboard.py lines 72-76 and audio_repeat.py lines 151-184: speak_text
\* has written the narration to a new temporary file and is about to call
\* _enqueue_audio(path).
speak_text(s) ==
    /\ s_pc[s] = "idle"
    /\ a_next <= MaxNarrations
    /\ s_path' = [s_path EXCEPT ![s] = a_next]
    /\ a_next' = a_next + 1
    /\ s_pc' = [s_pc EXCEPT ![s] = "ensure"]
    /\ UNCHANGED <<a_queue, a_event, a_thread, s_new, w_pc, w_path, enqueued,
                   played>>
    /\ UNCHANGED notAudio

\* Lines 124-125: the test of _ensure_audio_worker.
ensure_check(s) ==
    /\ s_pc[s] = "ensure"
    /\ s_pc' = [s_pc EXCEPT ![s] = IF a_thread # 0 /\ IsAlive(a_thread)
                                   THEN "append" ELSE "create"]
    /\ UNCHANGED <<a_queue, a_event, a_thread, a_next, s_path, s_new, w_pc,
                   w_path, enqueued, played>>
    /\ UNCHANGED notAudio

\* Line 126: a new Thread object, stored in _AUDIO_THREAD.
ensure_create(s) ==
    /\ s_pc[s] = "create"
    /\ \E w \in Workers :
        /\ w_pc[w] = "unborn"
        /\ \A v \in Workers : w_pc[v] = "unborn" => w <= v
        /\ w_pc' = [w_pc EXCEPT ![w] = "created"]
        /\ a_thread' = w
        /\ s_new' = [s_new EXCEPT ![s] = w]
    /\ s_pc' = [s_pc EXCEPT ![s] = "start"]
    /\ UNCHANGED <<a_queue, a_event, a_next, s_path, w_path, enqueued, played>>
    /\ UNCHANGED notAudio

\* Line 127: _AUDIO_THREAD.start() on the thread the global names by now.
\* Starting a thread a second time raises RuntimeError, which leaves
\* _enqueue_audio before the append; speak_text catches it (lines 185, 190).
ensure_start(s) ==
    /\ s_pc[s] = "start"
    /\ IF w_pc[a_thread] = "created"
       THEN /\ w_pc' = [w_pc EXCEPT ![a_thread] = "waiting"]
            /\ s_pc' = [s_pc EXCEPT ![s] = "append"]
            /\ UNCHANGED s_path
       ELSE /\ s_pc' = [s_pc EXCEPT ![s] = "idle"]
            /\ s_path' = [s_path EXCEPT ![s] = 0]
            /\ UNCHANGED w_pc
    /\ UNCHANGED <<a_queue, a_event, a_thread, a_next, s_new, w_path,
                   enqueued, played>>
    /\ UNCHANGED notAudio

\* The append without the event.
enqueue_audio_unsignalled(s) ==
    /\ s_pc[s] = "append"
    /\ a_queue' = Append(a_queue, s_path[s])
    /\ enqueued' = Append(enqueued, s_path[s])
    /\ s_pc' = [s_pc EXCEPT ![s] = "idle"]
    /\ s_path' = [s_path EXCEPT ![s] = 0]
    /\ UNCHANGED <<a_event, a_thread, a_next, s_new, w_pc, w_path, played>>
    /\ UNCHANGED notAudio

\* Lines 131-133: under the lock, the append and the event.
enqueue_audio(s) ==
    /\ s_pc[s] = "append"
    /\ a_queue' = Append(a_queue, s_path[s])
    /\ a_event' = TRUE
    /\ enqueued' = Append(enqueued, s_path[s])
    /\ s_pc' = [s_pc EXCEPT ![s] = "idle"]
    /\ s_path' = [s_path EXCEPT ![s] = 0]
    /\ UNCHANGED <<a_thread, a_next, s_new, w_pc, w_path, played>>
    /\ UNCHANGED notAudio

\* Line 109: _AUDIO_QUEUE_EVENT.wait() returns once the event is set.
worker_wait(w) ==
    /\ w_pc[w] = "waiting"
    /\ a_event
    /\ w_pc' = [w_pc EXCEPT ![w] = "take"]
    /\ UNCHANGED <<a_queue, a_event, a_thread, a_next, s_pc, s_path, s_new,
                   w_path, enqueued, played>>
    /\ UNCHANGED notAudio

\* Lines 111-115: under the lock, the oldest path is taken, or the event is
\* cleared and the worker goes back to wait.
worker_take(w) ==
    /\ w_pc[w] = "take"
    /\ IF a_queue = <<>>
       THEN /\ a_event' = FALSE
            /\ w_pc' = [w_pc EXCEPT ![w] = "waiting"]
            /\ UNCHANGED <<a_queue, w_path>>
       ELSE /\ w_path' = [w_path EXCEPT ![w] = Head(a_queue)]
            /\ a_queue' = Tail(a_queue)
            /\ w_pc' = [w_pc EXCEPT ![w] = "taken"]
            /\ UNCHANGED a_event
    /\ UNCHANGED <<a_thread, a_next, s_pc, s_path, s_new, enqueued, played>>
    /\ UNCHANGED notAudio

\* Lines 116 and 148: subprocess.run(["afplay", path]) begins.
play_begin(w) ==
    /\ w_pc[w] = "taken"
    /\ w_pc' = [w_pc EXCEPT ![w] = "playing"]
    /\ played' = Append(played, w_path[w])
    /\ UNCHANGED <<a_queue, a_event, a_thread, a_next, s_pc, s_path, s_new,
                   w_path, enqueued>>
    /\ UNCHANGED notAudio

\* Lines 148 and 117-120: the player ends and the file is removed.
play_end(w) ==
    /\ w_pc[w] = "playing"
    /\ w_pc' = [w_pc EXCEPT ![w] = "take"]
    /\ w_path' = [w_path EXCEPT ![w] = 0]
    /\ UNCHANGED <<a_queue, a_event, a_thread, a_next, s_pc, s_path, s_new,
                   enqueued, played>>
    /\ UNCHANGED notAudio

NextAudio ==
    \/ \E s \in Sessions : speak_text(s)
    \/ \E s \in Sessions : ensure_check(s)
    \/ \E s \in Sessions : ensure_create(s)
    \/ \E s \in Sessions : ensure_start(s)
    \/ \E s \in Sessions : enqueue_audio(s)
    \/ \E w \in Workers : worker_wait(w)
    \/ \E w \in Workers : worker_take(w)
    \/ \E w \in Workers : play_begin(w)
    \/ \E w \in Workers : play_end(w)

InitSpecAudio ==
    /\ IdleNorm
    /\ IdleLoad
    /\ IdlePred
    /\ IdleRec
    /\ IdlePipe
    /\ IdleAudio
    /\ IdleHttp
    /\ IdleDash
    /\ IdleMore

SpecAudio == InitSpecAudio /\ [][NextAudio]_vars

\* A started thread is scheduled again and again, and the player ends: each
\* step of a worker that stays possible is taken.
FairWorkers ==
    \A w \in Workers :
        /\ WF_vars(worker_wait(w))
        /\ WF_vars(worker_take(w))
        /\ WF_vars(play_begin(w))
        /\ WF_vars(play_end(w))

SpecAudioFair == SpecAudio /\ FairWorkers

(***************************************************************************)
(* Claims about the playback queue, checked under SpecAudio                *)
(***************************************************************************)
\* The workers whose player is running.
Playing == {w \in Workers : w_pc[w] = "playing"}

\* C14: narrations never overlap: whatever the interleaving of the
\* sessions' requests, at most one audio file is being played at a time.
C14_NoOverlap == Cardinality(Playing) <= 1

\* The paths a worker has taken from the queue and not begun to play.
InHand == {w \in Workers : w_pc[w] = "taken"}

\* C15: the files are played in the order they were enqueued, each one
\* once: the playback history is a prefix of the enqueue history, and every
\* enqueued file is played, waiting in the queue, or in a worker's hand.
C15_FifoExactlyOnce ==
    /\ Len(played) <= Len(enqueued)
    /\ \A i \in 1..Len(played) : played[i] = enqueued[i]
    /\ Len(played) + Cardinality(InHand) + Len(a_queue) = Len(enqueued)

\* The worker threads that are alive.
Alive == {w \in Workers : IsAlive(w)}

\* C23: there is a single playback worker: after any interleaving of
\* concurrent _enqueue_audio calls at most one worker thread is alive.
C23_SingleWorker == Cardinality(Alive) <= 1

\* The narration is in the history.
InHistory(n, history) == \E i \in 1..Len(history) : history[i] = n

\* The file of the narration was played and removed.
PlayedAndDeleted(n) ==
    InHistory(n, played) /\ \A w \in Workers : w_path[w] # n

SampleCsvRows ==
    { [address |-> "A", monthly_rent |-> Some(<<"0">>)],
      [address |-> "B", monthly_rent |-> Some(<<"2", "0", "0">>)],
      [address |-> "C", monthly_rent |-> Some(<<"9", "0", "0">>)],
      [address |-> "D", monthly_rent |-> Some(<<"zz">>)],
      [address |-> "G", monthly_rent |-> Some(<<>>)],
      [address |-> "F", monthly_rent |-> None] }

\* The budgets requested, in dollars.
SampleBudgets == {0, 199, 200, 900}

\* The rows float() accepts, the cell replaced by the number.
ParsedRows(rows) ==
    LET ok == SelectSeq(rows, LAMBDA r : FloatParse(r.monthly_rent[1]) # None)
    IN  [i \in 1..Len(ok) |->
            [ok[i] EXCEPT !.monthly_rent = FloatParse(ok[i].monthly_rent[1])[1]]]

\* fake_api.py lines 8-24, rag.py lines 9-33.  raised: an exception left the
\* function: open() on a file it cannot read, or float(None), a TypeError
\* that "except (ValueError, KeyError)" does not catch.  Without the
\* monthly_rent column every row gives KeyError and is skipped.
load_apartments(file) ==
    IF ~Exists(file) THEN [raised |-> FALSE, rows |-> <<>>]
    ELSE IF file.state = "unreadable" THEN [raised |-> TRUE, rows |-> <<>>]
    ELSE IF file.state = "nokey" THEN [raised |-> FALSE, rows |-> <<>>]
    ELSE IF \E i \in 1..Len(file.rows) : file.rows[i].monthly_rent = None
    THEN [raised |-> TRUE, rows |-> <<>>]
    ELSE [raised |-> FALSE, rows |-> ParsedRows(file.rows)]

\* fake_api.py line 32, rag.py line 42.
affordable_apartments(apartments, budget) ==
    SelectSeq(apartments, LAMBDA apt : apt.monthly_rent <= budget)

InitHttp ==
    /\ h_file \in FilesOf(SampleCsvRows)
    /\ h_budget = 0
    /\ h_status = "none"
    /\ h_body = None

\* fake_api.py lines 26-38, rag.py lines 36-51: GET /api/affordable/<budget>.
\* An exception of the view is answered by Flask with status 500.
get_affordable_apartments ==
    /\ \E budget \in SampleBudgets :
        LET r == load_apartments(h_file)
            affordable == affordable_apartments(r.rows, budget)
        IN  /\ h_budget' = budget
            /\ IF r.raised
               THEN h_status' = "500" /\ h_body' = None
               ELSE /\ h_status' = "200"
                    /\ h_body' = Some([budget |-> budget,
                                       count |-> Len(affordable),
                                       apartments |-> affordable])
    /\ UNCHANGED h_file
    /\ UNCHANGED notHttp

NextHttp ==
    \/ get_affordable_apartments

InitSpecHttp ==
    /\ IdleNorm
    /\ IdleLoad
    /\ IdlePred
    /\ IdleRec
    /\ IdlePipe
    /\ IdleAudio
    /\ InitHttp
    /\ IdleDash
    /\ IdleMore

SpecHttp == InitSpecHttp /\ [][NextHttp]_vars

(***************************************************************************)
(* The claim about the endpoint, checked under SpecHttp                    *)
(***************************************************************************)
\* The positions of the rows whose rent is a number of at most budget.
WithinBudget(rows, budget) ==
    {i \in 1..Len(rows) :
        /\ rows[i].monthly_rent # None
        /\ FloatParse(rows[i].monthly_rent[1]) # None
        /\ FloatParse(rows[i].monthly_rent[1])[1] <= budget}

KthWithinBudget(rows, budget, k) ==
    CHOOSE i \in WithinBudget(rows, budget) :
        Cardinality({j \in WithinBudget(rows, budget) : j <= i}) = k

\* The rows of a file that can be read.
ReadableRows(file) == IF file.state = "ok" THEN file.rows ELSE <<>>

\* The answer is the JSON object of the contract for the file and budget.
ContractBody(file, budget, body) ==
    /\ body.budget = budget
    /\ body.count = Len(body.apartments)
    /\ Len(body.apartments) = Cardinality(WithinBudget(ReadableRows(file), budget))
    /\ \A k \in 1..Len(body.apartments) :
          LET row == ReadableRows(file)[KthWithinBudget(ReadableRows(file), budget, k)]
          IN  /\ body.apartments[k].address = row.address
              /\ body.apartments[k].monthly_rent = FloatParse(row.monthly_rent[1])[1]

\* C16: every request is answered with a JSON object that echoes the
\* budget, lists exactly the rows of the file whose monthly_rent is a number
\* of at most budget, in file order, and counts them; rows whose rent is
\* missing or no number are left out, and a missing file gives count 0.
C16_EndpointContract ==
    h_status # "none" =>
        /\ h_file.state \in {"absent", "nokey", "ok"} => h_status = "200"
        /\ h_status = "200" => ContractBody(h_file, h_budget, h_body[1])

(***************************************************************************)
(* Further claims about the orchestrators, checked under SpecPipe          *)
(***************************************************************************)
MoneyFields == Fields \ {"months"}

\* C17: the profile an orchestrator passes to predict_safe_rent has six
\* amounts of at least 0 and a months value of at least 1, whatever the
\* user typed or said.
C17_ProfileWellFormed ==
    o_safe # None =>
        /\ \A k \in MoneyFields : o_input[1][k] >= 0
        /\ o_input[1].months >= 1

\* The warnings a failing warehouse call leaves, by the step that made it.
WarehouseWarnings == {"history", "log_rec", "log_budget"}

\* C19: the warehouse never blocks the dashboard: no failure of a log or
\* history call ends the run; a call that fails leaves a warning and
\* nothing else; and the finished run shows the safe rent and the
\* recommendations computed from the model, the answers and the listings.
C19_WarehouseNeverBlocks ==
    o_kind = "dash" =>
        /\ o_error # "warehouse"
        /\ \A step \in WarehouseWarnings :
              (warehouse # "configured" /\ Past(step)) => step \in o_warnings
        /\ o_pc = "done" =>
              /\ o_safe = Some(predict_safe_rent(o_model[1], o_input[1]))
              /\ o_recs = Some(recommend_apartments(o_safe[1], o_listings[1]))
              /\ o_message # "none"

\* C19's case: with the warehouse configured, the history fetch and both
\* log calls failed, each shown as a warning, and the run displayed a rent
\* and a listing within it.
C19_Witness ==
    /\ o_kind = "dash"
    /\ warehouse = "configured"
    /\ o_pc = "done"
    /\ WarehouseWarnings \subseteq o_warnings
    /\ o_message = "listed"
    /\ o_safe # None
    /\ Len(o_recs[1]) = 1

\* C20: a caller that reports an empty recommendation result tells "no
\* listing is within the budget" from "no listings are available at all":
\* it reports the latter exactly when the listing set it passed was empty.
C20_EmptyResultDistinguished ==
    (o_pc = "done" /\ o_recs = Some(<<>>)) =>
        /\ o_message \in {"none_within_budget", "none_available"}
        /\ o_message = "none_available" <=> o_listings = Some(<<>>)

(***************************************************************************)
(* A dashboard session                                                     *)
(*                                                                         *)
(* Each action is one run of the script on the click of a widget.  The     *)
(* dict st.session_state.answers is a function on the question indexes     *)
(* whose value None stands for an absent key.                              *)
(***************************************************************************)
\* What the user may type into the answer box.
DashTexts == {<<"7">>, <<" ">>}

\* The numbers the speech path may hear (OpenRouter's number or
\* clean_float of the transcript).
HeardNumbers == {-7}

\* "q_index < len(questions)" with the last question left out.
MoreQuestionsOffByOne(q) == q < Len(questions) - 1

\* Lines 711 and 770: q_index < len(questions).
MoreQuestions(q) == q < Len(questions)

\* The checkbox of line 549.
toggle_demo_mode ==
    /\ demo_mode' = ~demo_mode
    /\ UNCHANGED <<q_index, answers, finished, tone_confirmed, spoken_value,
                   d_result>>
    /\ UNCHANGED notDash

\* A tone button that leaves q_index at 0.
choose_tone_unindexed ==
    /\ ~tone_confirmed
    /\ tone_confirmed' = TRUE
    /\ UNCHANGED <<q_index, answers, finished, demo_mode, spoken_value, d_result>>
    /\ UNCHANGED notDash

\* Lines 588-633: one of the three tone buttons.
choose_tone ==
    /\ ~tone_confirmed
    /\ tone_confirmed' = TRUE
    /\ q_index' = 1
    /\ UNCHANGED <<answers, finished, demo_mode, spoken_value, d_result>>
    /\ UNCHANGED notDash

\* Lines 637-654: the auto-fill button.
auto_fill ==
    /\ demo_mode
    /\ ~finished
    /\ answers' = [i \in QuestionIndexes |-> Some(DemoAnswers[i + 1])]
    /\ tone_confirmed' = TRUE
    /\ q_index' = Len(questions)
    /\ finished' = TRUE
    /\ UNCHANGED <<demo_mode, spoken_value, d_result>>
    /\ UNCHANGED notDash

\* Lines 704-715: Submit Answer; a blank answer is refused with a warning.
submit_answer ==
    /\ tone_confirmed
    /\ ~finished
    /\ \E typed \in DashTexts :
        IF Strip(typed) = <<>>
        THEN UNCHANGED <<answers, q_index, finished>>
        ELSE /\ answers' = [answers EXCEPT
                               ![q_index - 1] = Some(clean_float_offline(typed))]
             /\ IF MoreQuestions(q_index)
                THEN q_index' = q_index + 1 /\ UNCHANGED finished
                ELSE finished' = TRUE /\ UNCHANGED q_index
    /\ UNCHANGED <<tone_confirmed, demo_mode, spoken_value, d_result>>
    /\ UNCHANGED notDash

\* Lines 728-750: Start Speaking with something heard.
start_speaking ==
    /\ tone_confirmed
    /\ ~finished
    /\ \E numeric \in HeardNumbers :
        spoken_value' = [spoken_value EXCEPT ![q_index - 1] = Some(numeric)]
    /\ UNCHANGED <<q_index, answers, finished, tone_confirmed, demo_mode,
                   d_result>>
    /\ UNCHANGED notDash

\* Lines 766-774: "Yes, submit" on what was heard.
confirm_yes ==
    /\ tone_confirmed
    /\ ~finished
    /\ spoken_value[q_index - 1] # None
    /\ answers' = [answers EXCEPT ![q_index - 1] = spoken_value[q_index - 1]]
    /\ IF MoreQuestions(q_index)
       THEN q_index' = q_index + 1 /\ UNCHANGED finished
       ELSE finished' = TRUE /\ UNCHANGED q_index
    /\ UNCHANGED <<tone_confirmed, demo_mode, spoken_value, d_result>>
    /\ UNCHANGED notDash

\* Lines 776-782: "No, try again".
confirm_no ==
    /\ tone_confirmed
    /\ ~finished
    /\ spoken_value[q_index - 1] # None
    /\ spoken_value' = [spoken_value EXCEPT ![q_index - 1] = None]
    /\ UNCHANGED <<q_index, answers, finished, tone_confirmed, demo_mode,
                   d_result>>
    /\ UNCHANGED notDash

\* Lines 788-803: the results step reads answers[0] .. answers[6]; an
\* absent key raises KeyError.
results_step ==
    /\ finished
    /\ d_result = "none"
    /\ d_result' = IF \A i \in QuestionIndexes : answers[i] # None
                   THEN "shown" ELSE "KeyError"
    /\ UNCHANGED <<q_index, answers, finished, tone_confirmed, demo_mode,
                   spoken_value>>
    /\ UNCHANGED notDash

NextDash ==
    \/ toggle_demo_mode
    \/ choose_tone
    \/ auto_fill
    \/ submit_answer
    \/ start_speaking
    \/ confirm_yes
    \/ confirm_no
    \/ results_step

InitSpecDash ==
    /\ IdleNorm
    /\ IdleLoad
    /\ IdlePred
    /\ IdleRec
    /\ IdlePipe
    /\ IdleAudio
    /\ IdleHttp
    /\ IdleDash
    /\ IdleMore

SpecDash == InitSpecDash /\ [][NextDash]_vars

(***************************************************************************)
(* The claim about the dashboard session, checked under SpecDash           *)
(***************************************************************************)
\* C18: whenever finished is true, answers holds a value for each of the
\* question indexes 0..6, so the results step never meets an absent key,
\* whether the session finished by answers typed or spoken or by the
\* auto-fill button.
C18_AllAnswersWhenFinished ==
    /\ finished => \A i \in QuestionIndexes : answers[i] # None
    /\ d_result # "KeyError"

\* C18's case: a session finished by answering, the first answer typed and
\* the last one spoken, and the results were shown.
C18_Witness ==
    /\ finished
    /\ d_result = "shown"
    /\ answers[0] = Some(7)
    /\ answers[6] = Some(-7)

\* The question step is shown.
QuestionShown == tone_confirmed /\ ~finished

\* The step records the answer to the question shown and no other.
RecordsCurrentAnswer ==
    /\ answers'[q_index - 1] # None
    /\ \A i \in QuestionIndexes : i # q_index - 1 => answers'[i] = answers[i]

\* The step is the auto-fill.
AutoFills ==
    /\ demo_mode
    /\ answers' = [i \in QuestionIndexes |-> Some(DemoAnswers[i + 1])]

\* C29: while the question step is shown 1 <= q_index <= 7; in the question
\* step q_index advances by one only in a step that records the answer to
\* the question shown (or auto-fills them all); finished becomes true only
\* when the seventh answer is recorded or by auto-fill, and never becomes
\* false again.
C29_QuestionStepWellFormed ==
    /\ [](QuestionShown => q_index \in 1..Len(questions))
    /\ [][(QuestionShown /\ q_index' = q_index + 1) =>
             (RecordsCurrentAnswer \/ AutoFills)]_vars
    /\ [][(~finished /\ finished') =>
             \/ AutoFills
             \/ QuestionShown /\ q_index = Len(questions) /\ RecordsCurrentAnswer]_vars
    /\ [][finished => finished']_vars

\* C29's case: the seven questions were answered one by one, each answer
\* typed, and the seventh ended the questions.
C29_Witness ==
    /\ finished
    /\ ~demo_mode
    /\ q_index = Len(questions)
    /\ \A i \in QuestionIndexes : answers[i] = Some(7)

(***************************************************************************)
(* A claim about the order of the listings shown, checked under SpecPipe   *)
(***************************************************************************)
Ascending(rows) ==
    \A i, j \in 1..Len(rows) :
        i < j => rows[i].monthly_rent[1] <= rows[j].monthly_rent[1]

\* C21: every surface shows the recommended listings in ascending order of
\* monthly rent: the CLI report, the narrated list, the dashboard's table
\* and its chart of the first ten.
C21_ShownAscending ==
    o_pc = "done" =>
        /\ Ascending(o_shown)
        /\ o_kind = "dash" => Ascending(dash_chart(o_recs[1]))

(***************************************************************************)
(* The repeat-mode tests: test_audio_repeat.py against audio_repeat.py     *)
(***************************************************************************)
\* Everything but the test module's variables.
notTests == <<normVars, loadVars, predVars, recVars, pipeVars, audioVars,
              httpVars, dashVars,
              spokenVars,
              memoVars,
              logVars>>

\* audio_repeat.py: the names the module binds at its top level (imports,
\* assignments and defs, lines 1-336).
AudioRepeatNames ==
    { "os", "tempfile", "threading", "subprocess", "deque", "lru_cache", "json",
      "np", "sd", "load_dotenv", "gTTS", "Recognizer", "AudioData", "w2n",
      "ElevenLabs", "load_historical_data", "train_model", "predict_safe_rent",
      "load_sublets", "recommend_apartments",
      "_parse_voice_list", "_VOICE_IDS", "_get_elevenlabs_client",
      "_get_voice_id", "recognizer", "genai", "requests",
      "listen_and_transcribe", "_AUDIO_QUEUE", "_AUDIO_QUEUE_LOCK",
      "_AUDIO_QUEUE_EVENT", "_AUDIO_THREAD", "_audio_worker",
      "_ensure_audio_worker", "_enqueue_audio", "_cleanup_audio_file",
      "_play_audio_file", "speak_text", "ask_question", "clean_float",
      "_get_gemini_model", "_gemini_parse_number", "openrouter_clarify_number",
      "gather_user_input", "process_speech_interaction" }

\* from <module> import <name>: the name is looked up among the module's.
ImportFrom(names, name) == IF name \in names THEN "bound" ELSE "ImportError"

\* The failed attempts a test case makes before the right one, at most.
MaxFailed == 2

\* test_audio_repeat.py lines 35-38, 63-68, 99-104, 186-191: the answers the
\* cases give for the budget and for the recommendations.
RightBudget == "$1,200.50"

RightList == "Greenwood Apartments, Sunset Villas, Maple Residency"

BudgetAnswers == {RightBudget, "$1,000.00", "$500.00", "$1,500.00"}

ListAnswers == {RightList, "Wrong", "Greenwood Apartments"}

Attempts == [budget : BudgetAnswers, list : ListAnswers]

RightAttempt == [budget |-> RightBudget, list |-> RightList]

\* k failed attempts and then the right one, for k up to MaxFailed.
TestScripts ==
    { failed \o <<RightAttempt>> :
        failed \in SeqsUpTo(Attempts \ {RightAttempt}, MaxFailed) }

InitTests ==
    /\ t_repeat \in BOOLEAN
    /\ t_script \in IF t_repeat THEN TestScripts ELSE {<<>>}
    /\ t_pc = "collect"
    /\ t_reads = 0
    /\ t_prints = 0
    /\ t_result = None

\* test_audio_repeat.py line 10, run when the test module is loaded:
\* from audio_repeat import read_question_budget_recommendation
collect_tests ==
    /\ t_pc = "collect"
    /\ t_pc' = IF ImportFrom(AudioRepeatNames,
                             "read_question_budget_recommendation") = "bound"
               THEN "running"
               ELSE "ImportError"
    /\ UNCHANGED <<t_repeat, t_script, t_reads, t_prints, t_result>>
    /\ UNCHANGED notTests

NextTests ==
    \/ collect_tests

InitSpecTests ==
    /\ IdleNorm
    /\ IdleLoad
    /\ IdlePred
    /\ IdleRec
    /\ IdlePipe
    /\ IdleAudio
    /\ IdleHttp
    /\ IdleDash
    /\ InitTests
    /\ IdleSpoken
    /\ IdleMemo
    /\ IdleLog

SpecTests == InitSpecTests /\ [][NextTests]_vars

\* C22: read_question_budget_recommendation can be called by its tests, and
\* in repeat mode a call that has returned after k failed attempts and a
\* right one returned True, read 2(k+1) inputs and printed the incorrect
\* message k times.
C22_RepeatUntilCorrect ==
    /\ t_pc # "ImportError"
    /\ t_pc = "returned" /\ t_repeat =>
        /\ t_result = Some(TRUE)
        /\ t_reads = 2 * Len(t_script)
        /\ t_prints = Len(t_script) - 1

(***************************************************************************)
(* The dashboard's spoken answer                                           *)
(*                                                                         *)
(* One press of Start Speaking: the transcript, openrouter_clarify_number, *)
(* float() of the suggested number and, without one, clean_float of the    *)
(* transcript, whose steps are those of the clean_float section.           *)
(***************************************************************************)
\* Everything but the spoken answer's variables and clean_float's.
notSpoken == <<loadVars, predVars, recVars, pipeVars, audioVars, httpVars,
               dashVars, testVars,
              memoVars,
              logVars>>

\* What listen_and_transcribe may return: "" when nothing was understood
\* (audio_repeat.py lines 98-100), or the words heard.
Transcripts == {<<>>, <<"7">>, <<"$", "7">>, <<"two">>, <<"zz">>, <<"nil">>}

\* What the request of openrouter_clarify_number can do: raise (no network,
\* timeout, an HTTP error status, a body that is not the JSON asked for),
\* or give a JSON object whose "number" is null or a value, here the text
\* that float() is given.
OpenRouterReplies ==
    { [raises |-> TRUE, number |-> None],
      [raises |-> FALSE, number |-> None],
      [raises |-> FALSE, number |-> Some(<<"7", "7">>)],
      [raises |-> FALSE, number |-> Some(<<"zz">>)] }

InitSpoken ==
    /\ k_key \in BOOLEAN
    /\ k_pc = "idle"
    /\ k_raw = <<>>
    /\ k_sent = {}
    /\ k_reply = None
    /\ k_numeric = None
    /\ k_value = None
    /\ k_error = FALSE

\* dashboard.py lines 729-733 and 749-750: the button, the recording and
\* its transcript; an empty transcript sets speak_error.
listen_and_transcribe ==
    /\ k_pc \in {"idle", "recorded", "raised"}
    /\ \E t \in Transcripts :
        /\ k_raw' = t
        /\ k_pc' = IF t = <<>> THEN "idle" ELSE "clarify"
        /\ k_error' = (t = <<>>)
    /\ k_sent' = {}
    /\ k_reply' = None
    /\ k_numeric' = None
    /\ k_value' = None
    /\ cf_pc' = "idle"
    /\ raw' = <<>>
    /\ val' = <<>>
    /\ cf_result' = None
    /\ warning' = None
    /\ attempts' = <<>>
    /\ contacted' = FALSE
    /\ UNCHANGED <<k_key, env_key, env_genai, gemini_cache>>
    /\ UNCHANGED notSpoken

\* dashboard.py line 734 and audio_repeat.py lines 259-302: without the key
\* or the library None is returned at once; otherwise the transcript is
\* posted, and every exception of the request and of reading its answer
\* gives None.
openrouter_clarify_number ==
    /\ k_pc = "clarify"
    /\ IF ~k_key
       THEN /\ k_reply' = None
            /\ UNCHANGED k_sent
       ELSE /\ k_sent' = k_sent \cup {k_raw}
            /\ \E r \in OpenRouterReplies :
                k_reply' = IF r.raises THEN None ELSE Some([number |-> r.number])
    /\ k_pc' = "float"
    /\ UNCHANGED <<k_key, k_raw, k_numeric, k_value, k_error>>
    /\ UNCHANGED normVars
    /\ UNCHANGED notSpoken

\* dashboard.py lines 735-741: float() of the suggested number, None when
\* there is no suggestion, no number, or float() raises.
SuggestedNumber(reply) ==
    IF reply # None /\ reply[1].number # None
    THEN FloatParse(reply[1].number[1])
    ELSE None

\* dashboard.py lines 735-748: the suggested number is recorded; without
\* one clean_float(raw) is called (audio_repeat.py lines 212-217).
take_suggestion ==
    /\ k_pc = "float"
    /\ k_numeric' = SuggestedNumber(k_reply)
    /\ IF SuggestedNumber(k_reply) # None
       THEN /\ k_value' = SuggestedNumber(k_reply)
            /\ k_pc' = "recorded"
            /\ UNCHANGED normVars
       ELSE /\ k_pc' = "clean"
            /\ raw' = k_raw
            /\ val' = Normalize(k_raw)
            /\ IF IsNoneLike(Normalize(k_raw))
               THEN cf_pc' = "returned" /\ cf_result' = Some(0)
               ELSE cf_pc' = "float" /\ cf_result' = None
            /\ UNCHANGED <<k_value, env_key, env_genai, gemini_cache, warning,
                           attempts, contacted>>
    /\ UNCHANGED <<k_key, k_raw, k_sent, k_reply, k_error>>
    /\ UNCHANGED notSpoken

\* dashboard.py lines 743-748: the number clean_float returned is recorded;
\* an exception of clean_float leaves the script run with nothing recorded.
record_clean_float ==
    /\ k_pc = "clean"
    /\ cf_pc \in {"returned", "raised"}
    /\ IF cf_pc = "returned"
       THEN /\ k_numeric' = cf_result
            /\ k_value' = cf_result
            /\ k_pc' = "recorded"
       ELSE /\ k_pc' = "raised"
            /\ UNCHANGED <<k_numeric, k_value>>
    /\ UNCHANGED <<k_key, k_raw, k_sent, k_reply, k_error>>
    /\ UNCHANGED normVars
    /\ UNCHANGED notSpoken

NextSpoken ==
    \/ listen_and_transcribe
    \/ openrouter_clarify_number
    \/ take_suggestion
    \/ try_float
    \/ try_word_to_num
    \/ get_gemini_model
    \/ gemini_generate
    \/ default_return
    \/ record_clean_float

InitSpecSpoken ==
    /\ InitNorm
    /\ IdleLoad
    /\ IdlePred
    /\ IdleRec
    /\ IdlePipe
    /\ IdleAudio
    /\ IdleHttp
    /\ IdleDash
    /\ IdleTests
    /\ InitSpoken
    /\ IdleMemo
    /\ IdleLog

SpecSpoken == InitSpecSpoken /\ [][NextSpoken]_vars

(***************************************************************************)
(* Claims about the spoken answer, checked under SpecSpoken                *)
(***************************************************************************)
\* What the local layers make of a transcript: zero for a none-like one,
\* the direct parse, else the number words; None when they all fail.
LocalParse(t) ==
    LET v == Normalize(t) IN
    IF IsNoneLike(v) THEN Some(0)
    ELSE IF FloatParse(v) # None THEN FloatParse(v)
    ELSE WordToNum(v)

\* C24: on the spoken-answer path a transcript that the local layers
\* resolve is sent to no remote service, and the value recorded for it is
\* the local parse.
C24_RemoteOnlyWhenLocalFails ==
    (k_pc \in {"clarify", "float", "clean", "recorded", "raised"}
     /\ LocalParse(k_raw) # None) =>
        /\ k_sent = {}
        /\ ~contacted
        /\ k_pc = "recorded" => k_value = LocalParse(k_raw)

\* The remote request of this answer failed or gave nothing usable.
OpenRouterFailed ==
    k_sent # {} /\ k_pc # "clarify" /\ SuggestedNumber(k_reply) = None

\* The request to the second service failed or gave nothing usable.
GeminiFailed == contacted /\ Attempted("default")

\* C25: a failed or unusable remote call never propagates: after one the
\* spoken answer is not left by an exception, the value recorded is what
\* clean_float makes of the transcript, and clean_float's own failed remote
\* call ends in the default 0 with a warning.
C25_RemoteFailureIsSoft ==
    /\ OpenRouterFailed =>
          /\ k_pc # "raised"
          /\ k_pc = "recorded" =>
                k_value # None /\ raw = k_raw /\ k_value = cf_result
    /\ GeminiFailed =>
          /\ cf_pc = "returned" /\ cf_result = Some(0) /\ warning = Some(val)
          /\ k_pc # "raised"

(***************************************************************************)
(* The cached model                                                        *)
(*                                                                         *)
(* main.py keeps the fitted model and the listings in two module globals;  *)
(* the dashboard keeps them in Streamlit's caches, whose key is the        *)
(* function and its arguments, of which there are none.  A model is the    *)
(* pair of the fit that made it and the version of the data it was fitted  *)
(* on.                                                                     *)
(***************************************************************************)
\* Everything but the cached model's variables.
notMemo == <<normVars, loadVars, predVars, recVars, pipeVars, audioVars,
             httpVars, dashVars, testVars, spokenVars,
              logVars>>

\* The most versions of the historical data, fits and getter calls in a run.
MaxVersions == 3

MaxFits == 3

MaxGets == 4

InitMemo ==
    /\ m_version = 1
    /\ m_subs_ok \in BOOLEAN
    /\ m_model = None
    /\ m_sublets = None
    /\ st_hist = None
    /\ st_model = None
    /\ st_sublets = None
    /\ m_fits = 0
    /\ m_gets = 0
    /\ m_ret = [h \in Hosts |-> <<>>]

\* The last return of a host's getter, and the one before it.
Returned(log, fitted, version) ==
    LET r == [model |-> fitted, at |-> version] IN
    IF log = <<>> THEN <<r>> ELSE <<log[Len(log)], r>>

\* main.py lines 36-61: initialize_system fits a model on the data on disk
\* and stores it, then loads the listings; an exception of load_sublets
\* leaves it after _model was assigned.
initialize_system(fits, version, subs_ok, old_sublets) ==
    [model |-> Some([id |-> fits + 1, version |-> version]),
     sublets |-> IF subs_ok THEN Some("listings") ELSE old_sublets,
     raised |-> ~subs_ok]

\* main.py lines 64-69.
get_model ==
    /\ m_gets < MaxGets
    /\ m_gets' = m_gets + 1
    /\ IF m_model = None
       THEN /\ m_fits < MaxFits
            /\ LET r == initialize_system(m_fits, m_version, m_subs_ok, m_sublets)
               IN  /\ m_model' = r.model
                   /\ m_sublets' = r.sublets
                   /\ m_fits' = m_fits + 1
                   /\ m_ret' = IF r.raised THEN m_ret
                               ELSE [m_ret EXCEPT !["main"] =
                                       Returned(@, r.model[1], m_version)]
       ELSE /\ m_ret' = [m_ret EXCEPT !["main"] =
                           Returned(@, m_model[1], m_version)]
            /\ UNCHANGED <<m_model, m_sublets, m_fits>>
    /\ UNCHANGED <<m_version, m_subs_ok, st_hist, st_model, st_sublets>>
    /\ UNCHANGED notMemo

\* main.py lines 72-77.
get_sublets ==
    /\ m_gets < MaxGets
    /\ m_gets' = m_gets + 1
    /\ IF m_sublets = None
       THEN /\ m_fits < MaxFits
            /\ LET r == initialize_system(m_fits, m_version, m_subs_ok, m_sublets)
               IN  /\ m_model' = r.model
                   /\ m_sublets' = r.sublets
                   /\ m_fits' = m_fits + 1
       ELSE UNCHANGED <<m_model, m_sublets, m_fits>>
    /\ UNCHANGED <<m_version, m_subs_ok, st_hist, st_model, st_sublets, m_ret>>
    /\ UNCHANGED notMemo

\* dashboard.py lines 162-169 and 800: _load_model under st.cache_resource,
\* reading the data through _load_historical_data under st.cache_data.
load_model ==
    /\ m_gets < MaxGets
    /\ m_gets' = m_gets + 1
    /\ IF st_model = None
       THEN /\ m_fits < MaxFits
            /\ LET data == IF st_hist = None THEN Some(m_version) ELSE st_hist
                   new == [id |-> m_fits + 1, version |-> data[1]]
               IN  /\ st_hist' = data
                   /\ st_model' = Some(new)
                   /\ m_ret' = [m_ret EXCEPT !["dashboard"] =
                                   Returned(@, new, m_version)]
            /\ m_fits' = m_fits + 1
       ELSE /\ m_ret' = [m_ret EXCEPT !["dashboard"] =
                           Returned(@, st_model[1], m_version)]
            /\ UNCHANGED <<st_hist, st_model, m_fits>>
    /\ UNCHANGED <<m_version, m_subs_ok, m_model, m_sublets, st_sublets>>
    /\ UNCHANGED notMemo

\* dashboard.py lines 171-173 and 802: _load_sublets under st.cache_data;
\* an exception is not cached.
load_sublets_cached ==
    /\ m_gets < MaxGets
    /\ m_gets' = m_gets + 1
    /\ st_sublets' = IF st_sublets = None /\ m_subs_ok THEN Some("listings")
                     ELSE st_sublets
    /\ UNCHANGED <<m_version, m_subs_ok, m_model, m_sublets, st_hist, st_model,
                   m_fits, m_ret>>
    /\ UNCHANGED notMemo

\* historical_data.csv is replaced while the process runs.
change_historical_data ==
    /\ m_version < MaxVersions
    /\ m_version' = m_version + 1
    /\ UNCHANGED <<m_subs_ok, m_model, m_sublets, st_hist, st_model, st_sublets,
                   m_fits, m_gets, m_ret>>
    /\ UNCHANGED notMemo

\* sublets.csv becomes readable, or stops being so.
change_sublets ==
    /\ m_subs_ok' = ~m_subs_ok
    /\ UNCHANGED <<m_version, m_model, m_sublets, st_hist, st_model, st_sublets,
                   m_fits, m_gets, m_ret>>
    /\ UNCHANGED notMemo

NextMemo ==
    \/ get_model
    \/ get_sublets
    \/ load_model
    \/ load_sublets_cached
    \/ change_historical_data
    \/ change_sublets

InitSpecMemo ==
    /\ IdleNorm
    /\ IdleLoad
    /\ IdlePred
    /\ IdleRec
    /\ IdlePipe
    /\ IdleAudio
    /\ IdleHttp
    /\ IdleDash
    /\ IdleTests
    /\ IdleSpoken
    /\ InitMemo
    /\ IdleLog

SpecMemo == InitSpecMemo /\ [][NextMemo]_vars

\* C26: the fitted model is memoized: every model a getter returns was
\* fitted on the historical data as it is at the call (fitted on first use,
\* re-created when the data changes), and two calls in a row with the data
\* unchanged return the same model.
C26_MemoizedAndRefreshed ==
    \A h \in Hosts :
        /\ \A i \in 1..Len(m_ret[h]) :
              m_ret[h][i].model.version = m_ret[h][i].at
        /\ (Len(m_ret[h]) = 2 /\ m_ret[h][1].at = m_ret[h][2].at) =>
              m_ret[h][1].model.id = m_ret[h][2].model.id

(***************************************************************************)
(* Sign-in and warehouse logging                                           *)
(*                                                                         *)
(* One dashboard session.  A step is one run of the script from the top:   *)
(* the auth gate with its login row, then the question step or the results *)
(* step with its two rows.  The callback expects the state it compares in  *)
(* the session that made the login URL (lines 206-216), and Log out pops   *)
(* the user and the URL from the session it leaves in place, so a later    *)
(* sign-in arrives in the same session.  The connector commits every       *)
(* INSERT as it is executed.                                               *)
(***************************************************************************)
\* Everything but the variables of sign-in and logging.
notLog == <<normVars, loadVars, predVars, recVars, pipeVars, audioVars,
            httpVars, dashVars, testVars, spokenVars, memoVars>>

\* The people who may sign in.
Users == {1, 2}

\* The most script runs and sign-ins in a session.
MaxRuns == 4

MaxLogins == 2

\* What a warehouse function can do: every statement succeeds, or one
\* raises; _snowflake_log_recommendations may raise after some of its
\* INSERTs.
WriteOutcomes == {"ok", "fails"}

RecOutcomes == {"ok", "fails", "partial"}

InitLog ==
    /\ auth0_user = 0
    /\ u_login = 0
    /\ u_owners = {}
    /\ u_finished = FALSE
    /\ login_logged = FALSE
    /\ recommendation_logged = FALSE
    /\ budget_logged = FALSE
    /\ u_runs = 0
    /\ u_rows = {}

\* The flag left unset whatever the write did.
LoggedNever(outcome) == FALSE

\* dashboard.py lines 529-533, 806-810, 813-817: the flag is set when the
\* function returned no error.
Logged(outcome) == outcome = "ok"

\* A row written in this run: the table, the user it is keyed by, the
\* users whose answers it holds, and whether its write went through.
Row(table, whole) ==
    [table |-> table, user |-> auth0_user, owners |-> u_owners,
     login |-> u_login, run |-> u_runs + 1, whole |-> whole]

\* dashboard.py lines 528-533 and 264-300.
LoginRows(outcome) ==
    IF ~login_logged /\ outcome = "ok" THEN {Row("login", TRUE)} ELSE {}

\* dashboard.py lines 805-810 and 301-349.
RecommendationRows(outcome) ==
    IF ~recommendation_logged /\ outcome \in {"ok", "partial"}
    THEN {Row("rec", outcome = "ok")}
    ELSE {}

\* dashboard.py lines 812-817 and 351-404.
BudgetRows(outcome) ==
    IF ~budget_logged /\ outcome = "ok" THEN {Row("budget", TRUE)} ELSE {}

\* dashboard.py lines 206-231: the callback of a sign-in stores the user
\* and reruns the script.
auth0_handle_callback ==
    /\ auth0_user = 0
    /\ u_login < MaxLogins
    /\ \E u \in Users : auth0_user' = u
    /\ u_login' = u_login + 1
    /\ UNCHANGED <<u_owners, u_finished, login_logged, recommendation_logged,
                   budget_logged, u_runs, u_rows>>
    /\ UNCHANGED notLog

\* A run of the script with nobody pressing Log out: the auth gate (lines
\* 525-533) and, once the answers are complete, the results step (788-817).
rerun_page ==
    /\ auth0_user # 0
    /\ u_runs < MaxRuns
    /\ u_runs' = u_runs + 1
    /\ \E ol \in WriteOutcomes, orec \in RecOutcomes, ob \in WriteOutcomes :
        /\ login_logged' = (login_logged \/ Logged(ol))
        /\ IF u_finished
           THEN /\ recommendation_logged' =
                      (recommendation_logged \/ Logged(orec))
                /\ budget_logged' = (budget_logged \/ Logged(ob))
                /\ u_rows' = u_rows \cup LoginRows(ol)
                                \cup RecommendationRows(orec) \cup BudgetRows(ob)
           ELSE /\ u_rows' = u_rows \cup LoginRows(ol)
                /\ UNCHANGED <<recommendation_logged, budget_logged>>
    /\ UNCHANGED <<auth0_user, u_login, u_owners, u_finished>>
    /\ UNCHANGED notLog

\* A run in which an answer is recorded (lines 704-715, 764-782, 637-654):
\* the auth gate, the answer of the user signed in, finished after the
\* last one, and st.rerun().
record_answer ==
    /\ auth0_user # 0
    /\ ~u_finished
    /\ u_runs < MaxRuns
    /\ u_runs' = u_runs + 1
    /\ \E ol \in WriteOutcomes :
        /\ login_logged' = (login_logged \/ Logged(ol))
        /\ u_rows' = u_rows \cup LoginRows(ol)
    /\ u_owners' = u_owners \cup {auth0_user}
    /\ u_finished' \in BOOLEAN
    /\ UNCHANGED <<auth0_user, u_login, recommendation_logged, budget_logged>>
    /\ UNCHANGED notLog

\* A run in which Log out was pressed (lines 525-543): the auth gate's
\* login row, then the user and the three flags are dropped and the script
\* stops; answers and finished are left as they are.
log_out ==
    /\ auth0_user # 0
    /\ u_runs < MaxRuns
    /\ u_runs' = u_runs + 1
    /\ \E ol \in WriteOutcomes : u_rows' = u_rows \cup LoginRows(ol)
    /\ auth0_user' = 0
    /\ login_logged' = FALSE
    /\ recommendation_logged' = FALSE
    /\ budget_logged' = FALSE
    /\ UNCHANGED <<u_login, u_owners, u_finished>>
    /\ UNCHANGED notLog

NextLog ==
    \/ auth0_handle_callback
    \/ rerun_page
    \/ record_answer
    \/ log_out

InitSpecLog ==
    /\ IdleNorm
    /\ IdleLoad
    /\ IdlePred
    /\ IdleRec
    /\ IdlePipe
    /\ IdleAudio
    /\ IdleHttp
    /\ IdleDash
    /\ IdleTests
    /\ IdleSpoken
    /\ IdleMemo
    /\ InitLog

SpecLog == InitSpecLog /\ [][NextLog]_vars

(***************************************************************************)
(* Claims about logging, checked under SpecLog                             *)
(***************************************************************************)
\* The rows of a table.
RowsOf(table) == {r \in u_rows : r.table = table}

\* C27: every budget or recommendation row is keyed by the user who was
\* signed in when its answers were given; answers given under one user are
\* never logged under another who signs in later in the session.
C27_RowsKeyedByAnsweringUser ==
    \A r \in RowsOf("rec") \cup RowsOf("budget") : r.owners = {r.user}

\* The writes of a table that went through in a sign-in.
WholeWrites(table, login) ==
    {r \in RowsOf(table) : r.login = login /\ r.whole}

\* C30: within one sign-in the recommendation result and the budget
\* submission are each written successfully at most once, whatever the
\* number of reruns; a flag is set exactly when its write of this sign-in
\* has gone through, so a failed write is tried again on the next run and
\* a successful one is not repeated until Log out resets the flags.
C30_LoggedAtMostOncePerLogin ==
    /\ \A login \in 1..u_login :
          /\ Cardinality(WholeWrites("rec", login)) <= 1
          /\ Cardinality(WholeWrites("budget", login)) <= 1
    /\ recommendation_logged <=>
          (auth0_user # 0 /\ WholeWrites("rec", u_login) # {})
    /\ budget_logged <=>
          (auth0_user # 0 /\ WholeWrites("budget", u_login) # {})

\* C30's case: in one sign-in a recommendation write failed part-way, the
\* next run wrote it, and a later run of the same sign-in wrote nothing
\* more.
C30_Witness ==
    /\ auth0_user # 0
    /\ recommendation_logged /\ budget_logged
    /\ \E r1, r2 \in RowsOf("rec") :
          /\ r1.login = u_login /\ r2.login = u_login
          /\ ~r1.whole /\ r2.whole
          /\ r1.run < r2.run /\ r2.run < u_runs
====
